---- MODULE Spec2Model ----
(***************************************************************************)
(* NDM-TCP congestion control: a state-machine model of the per-connection *)
(* controller of ndm_tcp_lkm.c (canonical tier) and                        *)
(* ndm_tcp_lkm_optimized.c (lookup-table tier).                            *)
(*                                                                         *)
(* One connection is modelled, except in SpecPair, which runs two side by  *)
(* side.  `ca` is the connection's private struct ndm_tcp, `tp` the fields *)
(* of the host's tcp_sock the handlers read and                            *)
(* write, `last` a record of the most recent handler invocation (its       *)
(* arguments, locals and return value), `nacks` the number of non-zero     *)
(* acknowledgments processed so far, `steps` the number of calls made in   *)
(* a specification that bounds them.                                       *)
(*                                                                         *)
(* TLC's integers are 32-bit signed.  Quantities of type u32 are kept      *)
(* below 2^31; products that the C code forms in 64 bits are formed by     *)
(* MulDivT, which computes the same truncated quotient without the         *)
(* intermediate product.                                                   *)
(***************************************************************************)
EXTENDS Integers, Sequences, FiniteSets, TLC

VARIABLES tier, ca, tp, last, nacks, steps

vars == <<tier, ca, tp, last, nacks, steps>>

----------------------------------------------------------------------------
(* Fixed-width integer arithmetic of the C code                            *)

Min(a, b) == IF a < b THEN a ELSE b
Max(a, b) == IF a > b THEN a ELSE b
Abs(a) == IF a < 0 THEN -a ELSE a

U8(x)  == x % 256
U16(x) == x % 65536
S16(x) == LET m == x % 65536 IN IF m >= 32768 THEN m - 65536 ELSE m

(* C division of signed operands truncates toward zero (d > 0). *)
TDiv(a, d) == IF a >= 0 THEN a \div d ELSE -((-a) \div d)

(* (s64)a * b / d with C truncation, without forming a * b:                *)
(* |a| = q*d + r gives |a|*|b| / d = q*|b| + (r*|b|) / d exactly.          *)
MulDivT(a, b, d) ==
    LET q == Abs(a) \div d
        r == Abs(a) % d
        m == q * Abs(b) + (r * Abs(b)) \div d
    IN IF (a < 0) = (b < 0) THEN m ELSE -m

(* 32 - __builtin_clz(x): the number of significant bits of x > 0.  The    *)
(* argument p / 1000 of calculate_entropy is never 0 (p >= 62500).         *)
RECURSIVE BitLen(_)
BitLen(x) == IF x <= 0 THEN 0 ELSE 1 + BitLen(x \div 2)

RECURSIVE SumTo(_, _)
SumTo(f, n) == IF n = 0 THEN 0 ELSE f[n - 1] + SumTo(f, n - 1)

----------------------------------------------------------------------------
(* Canonical tier: ndm_tcp_lkm.c                                           *)

ENTROPY_WINDOW_SIZE == 16
HIDDEN_SIZE == 8
INPUT_SIZE == 8
BASE_PLASTICITY == 300
PLASTICITY_DECAY == 995
ENTROPY_THRESHOLD == 700
MIN_PLASTICITY == 100
MAX_PLASTICITY == 1000
BOOST_SSTHRESH == 100
BOOST_LOSS_STATE == 150
BATCH_PACKETS == 8
MIN_SSTHRESH == 2
HIST_BINS == 16

(* U32_MAX is beyond TLC's integers; the sentinel is the largest           *)
(* representable value, which every RTT sample (srtt_us >> 3 < 2^29) is    *)
(* still below.  TCP_INFINITE_SSTHRESH is 0x7fffffff exactly.              *)
U32_MAX == 2147483647
TCP_INFINITE_SSTHRESH == 2147483647

(* calculate_entropy: 16-bin histogram between the minimum and the maximum *)
(* of the valid samples, p = hist * 10^6 / n, log2 p taken as the bit      *)
(* length of p / 1000, and the sum scaled by 1/4 and capped at 1000.       *)
EntropyCount(c) == Min(c.history_count, ENTROPY_WINDOW_SIZE)

(* A minimum that is not searched for: the oldest slot. *)
EntropyMinVal_first(c) == c.rtt_history[0]

EntropyMinVal(c) ==
    LET n == EntropyCount(c)
        S == {c.rtt_history[i] : i \in 0..(n - 1)} \cup {c.rtt_history[0]}
    IN CHOOSE m \in S : \A x \in S : m <= x

EntropyMaxVal(c) ==
    LET n == EntropyCount(c)
        S == {c.rtt_history[i] : i \in 0..(n - 1)} \cup {c.rtt_history[0]}
    IN CHOOSE m \in S : \A x \in S : m >= x

EntropyBin(h, min_val, range) ==
    Min(U16(((h - min_val) * (HIST_BINS - 1)) \div range), HIST_BINS - 1)

EntropyHistogram(c) ==
    LET n == EntropyCount(c)
        min_val == EntropyMinVal(c)
        range == U16(EntropyMaxVal(c) - min_val)
    IN [b \in 0..(HIST_BINS - 1) |->
          Cardinality({i \in 0..(n - 1) :
                         EntropyBin(c.rtt_history[i], min_val, range) = b})]

(* One bin's term with the logarithm of the inverse probability,           *)
(* floor(log2(total / hist)), in place of the bit length of p / 1000.      *)
EntropyTerm_shannon(hist, total) ==
    IF hist > 0
    THEN LET p == (hist * 1000000) \div total
         IN (p * (BitLen(total \div hist) - 1)) \div 1000
    ELSE 0

(* One bin's term.  log_p = 1000 * BitLen(p / 1000), so                    *)
(* (p * log_p) / 1000000 = (p * BitLen(p / 1000)) / 1000.                  *)
EntropyTerm(hist, total) ==
    IF hist > 0
    THEN LET p == (hist * 1000000) \div total
         IN (p * BitLen(p \div 1000)) \div 1000
    ELSE 0

EntropyRaw(c) ==
    LET histogram == EntropyHistogram(c)
        total == EntropyCount(c)
        terms == [b \in 0..(HIST_BINS - 1) |-> EntropyTerm(histogram[b], total)]
    IN SumTo(terms, HIST_BINS)

(* The final scaling, and the same scaling without its cap. *)
EntropyScale_uncapped(entropy) == entropy \div 4

EntropyScale(entropy) == Min(entropy \div 4, 1000)

(* The estimator without the range test: equal samples all fall into bin  *)
(* 0 and are scored like any other histogram.                              *)
calculate_entropy_unguarded(c) ==
    IF c.history_count < 8 THEN 0
    ELSE IF U16(EntropyMaxVal(c) - EntropyMinVal(c)) = 0
    THEN EntropyScale(EntropyTerm(EntropyCount(c), EntropyCount(c)))
    ELSE EntropyScale(EntropyRaw(c))

calculate_entropy(c) ==
    IF c.history_count < 8 THEN 0
    ELSE IF U16(EntropyMaxVal(c) - EntropyMinVal(c)) = 0 THEN 0
    ELSE EntropyScale(EntropyRaw(c))

(* tanh_approx: x - x^3/3 in fixed point, saturating only beyond +-3000.   *)
tanh_approx(x) ==
    IF x > 3000 THEN 1000
    ELSE IF x < -3000 THEN -1000
    ELSE LET x2 == TDiv(x * x, 1000)
             x3 == TDiv(x2 * x, 1000)
         IN S16(x - TDiv(x3, 3))

(* The linear map of sigmoid_approx without the final clamp. *)
sigmoid_unclamped(x) ==
    IF x > 6000 THEN 1000
    ELSE IF x < -6000 THEN 0
    ELSE 500 + TDiv(x, 8)

(* sigmoid_approx: 500 + x/8 clamped to [0, 1000]. *)
sigmoid_approx(x) ==
    IF x > 6000 THEN 1000
    ELSE IF x < -6000 THEN 0
    ELSE Min(1000, Max(0, 500 + TDiv(x, 8)))

(* Pseudo-random weights derived from the indices. *)
HiddenWeight(i, j) == ((i * 37 + j * 17) % 2000) - 1000
OutputWeight(j) == ((j * 13) % 2000) - 1000

(* inputs[0..7] of ndm_forward_pass. *)
ForwardInputs(c, rtt_us) ==
    [j \in 0..(INPUT_SIZE - 1) |->
        CASE j = 0 -> ((rtt_us * 1000) \div Max(c.min_rtt_us, 1)) - 1000
          [] j = 1 -> c.shannon_entropy
          [] j = 2 -> IF c.in_slow_start THEN 1000 ELSE -1000
          [] j = 3 -> IF c.congestion_detected THEN -1000 ELSE 1000
          [] j = 4 -> c.plasticity - 500
          [] j = 5 -> IF c.loss_detected THEN -1000 ELSE 1000
          [] OTHER -> 0]

HiddenUnit(c, inputs, i) ==
    LET terms == [j \in 0..(INPUT_SIZE - 1) |->
                     MulDivT(inputs[j], HiddenWeight(i, j), 1000)]
        sum == SumTo(terms, INPUT_SIZE) + TDiv(c.hidden_state[i] * 500, 1000)
    IN tanh_approx(sum)

ForwardOutput(hidden) ==
    LET terms == [j \in 0..(HIDDEN_SIZE - 1) |->
                     TDiv(hidden[j] * OutputWeight(j), 1000)]
    IN SumTo(terms, HIDDEN_SIZE)

(* A gate that doubles the pre-activation above the threshold. *)
GatedSignal_doubling(entropy, output) ==
    IF entropy > ENTROPY_THRESHOLD
    THEN sigmoid_approx(output * 2)
    ELSE sigmoid_approx(output)

(* Entropy gating of the output: halve the pre-activation above the        *)
(* threshold, then squash.                                                 *)
GatedSignal(entropy, output) ==
    IF entropy > ENTROPY_THRESHOLD
    THEN sigmoid_approx(TDiv(output, 2))
    ELSE sigmoid_approx(output)

(* ndm_forward_pass: the new hidden_state, the output pre-activation and   *)
(* *cwnd_delta.                                                            *)
ndm_forward_pass(c, rtt_us) ==
    LET inputs == ForwardInputs(c, rtt_us)
        hidden == [i \in 0..(HIDDEN_SIZE - 1) |-> HiddenUnit(c, inputs, i)]
        output == ForwardOutput(hidden)
    IN [inputs |-> inputs, hidden |-> hidden, output |-> output,
        cwnd_delta |-> GatedSignal(c.shannon_entropy, output)]

----------------------------------------------------------------------------
(* Host (kernel) helpers the handlers call on tcp_sock.                    *)

(* tcp_slow_start: grow by acked up to snd_ssthresh. *)
tcp_slow_start(t, acked) ==
    LET cwnd == Min(t.snd_cwnd + acked, t.snd_ssthresh)
    IN [t EXCEPT !.snd_cwnd = Min(cwnd, t.snd_cwnd_clamp)]

SlowStartLeft(t, acked) ==
    acked - (Min(t.snd_cwnd + acked, t.snd_ssthresh) - t.snd_cwnd)

(* tcp_cong_avoid_ai: one segment per w acknowledged, credits carried in   *)
(* snd_cwnd_cnt.                                                           *)
tcp_cong_avoid_ai(t, w, acked) ==
    LET t1 == IF t.snd_cwnd_cnt >= w
              THEN [t EXCEPT !.snd_cwnd_cnt = 0, !.snd_cwnd = t.snd_cwnd + 1]
              ELSE t
        cnt == t1.snd_cwnd_cnt + acked
        t2 == IF cnt >= w
              THEN [t1 EXCEPT !.snd_cwnd_cnt = cnt - (cnt \div w) * w,
                              !.snd_cwnd = t1.snd_cwnd + (cnt \div w)]
              ELSE [t1 EXCEPT !.snd_cwnd_cnt = cnt]
    IN [t2 EXCEPT !.snd_cwnd = Min(t2.snd_cwnd, t2.snd_cwnd_clamp)]

(* tcp_reno_cong_avoid: nothing unless cwnd-limited; slow start below the  *)
(* host's snd_ssthresh, additive increase with what is left.               *)
tcp_reno_cong_avoid(t, acked, limited) ==
    IF ~limited THEN t
    ELSE IF t.snd_cwnd < t.snd_ssthresh
    THEN LET t1 == tcp_slow_start(t, acked)
             left == SlowStartLeft(t, acked)
         IN IF left = 0 THEN t1 ELSE tcp_cong_avoid_ai(t1, t1.snd_cwnd, left)
    ELSE tcp_cong_avoid_ai(t, t.snd_cwnd, acked)

----------------------------------------------------------------------------
(* Canonical tier: connection state and handlers                           *)

(* ndm_tcp_init: the private struct after construction, from the host's    *)
(* window and threshold.                                                   *)
ndm_tcp_init_ca(cwnd, ssthresh) ==
    [min_rtt_us |-> U32_MAX,
     prior_cwnd |-> cwnd,
     ssthresh |-> ssthresh,
     rtt_history |-> [i \in 0..(ENTROPY_WINDOW_SIZE - 1) |-> 0],
     history_index |-> 0,
     history_count |-> 0,
     hidden_state |-> [i \in 0..(HIDDEN_SIZE - 1) |-> 0],
     shannon_entropy |-> 0,
     plasticity |-> BASE_PLASTICITY,
     packets_acked |-> 0,
     has_data |-> FALSE,
     in_slow_start |-> TRUE,
     congestion_detected |-> FALSE,
     loss_detected |-> FALSE]

(* The host's tcp_sock after ndm_tcp_init: snd_ssthresh is overwritten. *)
ndm_tcp_init_tp(cwnd) ==
    [snd_cwnd |-> cwnd,
     snd_ssthresh |-> TCP_INFINITE_SSTHRESH,
     snd_cwnd_cnt |-> 0,
     snd_cwnd_clamp |-> U32_MAX]

(* The record of the most recent handler call: its arguments, the window   *)
(* and the plasticity it found, its locals and its return value.           *)
NoCall ==
    [op |-> "init", acked |-> 0, srtt_us |-> 0, rtt_us |-> 0, cwnd0 |-> 0,
     plast0 |-> 0,
     batch |-> FALSE, limited |-> FALSE, branch |-> "none", output |-> 0,
     cwnd_delta |-> 0, ret |-> 0, arg |-> "none", info |-> <<>>]

(* rtt_us = srtt_us >> 3, zero taken as one. *)
RttUs(srtt_us) == IF srtt_us \div 8 = 0 THEN 1 ELSE srtt_us \div 8

(* The 16-bit millisecond sample stored in the history. *)
RttMs(rtt_us) ==
    LET ms == Min(rtt_us \div 1000, 65535)
    IN U16(IF ms = 0 THEN 1 ELSE ms)

(* A tracker that keeps the latest RTT instead of the smallest. *)
TrackRtt_latest(c, acked, rtt_us) ==
    [c EXCEPT !.packets_acked = U16(c.packets_acked + acked),
              !.min_rtt_us = rtt_us,
              !.rtt_history[c.history_index] = RttMs(rtt_us),
              !.history_index = (c.history_index + 1) % ENTROPY_WINDOW_SIZE,
              !.history_count = IF c.history_count < ENTROPY_WINDOW_SIZE
                                THEN c.history_count + 1 ELSE c.history_count]

(* A tracker whose write index wraps at half the window. *)
TrackRtt_halfring(c, acked, rtt_us) ==
    [c EXCEPT !.packets_acked = U16(c.packets_acked + acked),
              !.min_rtt_us = IF rtt_us < c.min_rtt_us THEN rtt_us ELSE c.min_rtt_us,
              !.rtt_history[c.history_index] = RttMs(rtt_us),
              !.history_index = (c.history_index + 1) % (ENTROPY_WINDOW_SIZE \div 2),
              !.history_count = IF c.history_count < ENTROPY_WINDOW_SIZE
                                THEN c.history_count + 1 ELSE c.history_count]

(* Counter, min RTT and ring buffer update at the head of cong_avoid. *)
TrackRtt(c, acked, rtt_us) ==
    [c EXCEPT !.packets_acked = U16(c.packets_acked + acked),
              !.min_rtt_us = IF rtt_us < c.min_rtt_us THEN rtt_us ELSE c.min_rtt_us,
              !.rtt_history[c.history_index] = RttMs(rtt_us),
              !.history_index = (c.history_index + 1) % ENTROPY_WINDOW_SIZE,
              !.history_count = IF c.history_count < ENTROPY_WINDOW_SIZE
                                THEN c.history_count + 1 ELSE c.history_count]

(* A boundary test that fires one packet late. *)
BatchDue_late(c) == c.packets_acked > BATCH_PACKETS

(* A boundary test that recomputes on every ack. *)
BatchDue_always(c) == c.packets_acked >= 1

(* A boundary test that fires at half a batch. *)
BatchDue_half(c) == c.packets_acked >= BATCH_PACKETS \div 2

(* The batch boundary test. *)
BatchDue(c) == c.packets_acked >= BATCH_PACKETS

(* A recomputation that leaves congestion_detected as it found it. *)
BatchUpdate_flagless(c) ==
    LET e == U16(calculate_entropy(c))
    IN [c EXCEPT !.shannon_entropy = e,
                 !.packets_acked = 0,
                 !.has_data = TRUE,
                 !.loss_detected = FALSE]

(* The periodic entropy recomputation. *)
BatchUpdate(c) ==
    LET e == U16(calculate_entropy(c))
    IN [c EXCEPT !.shannon_entropy = e,
                 !.packets_acked = 0,
                 !.has_data = TRUE,
                 !.congestion_detected = (e < ENTROPY_THRESHOLD),
                 !.loss_detected = FALSE]

(* A growth rule that trusts the flags without has_data. *)
GrowthBranch_trusting(c) ==
    IF c.in_slow_start THEN "slow_start"
    ELSE IF c.congestion_detected THEN "conservative"
    ELSE "aggressive"

(* Which growth rule cong_avoid applies. *)
GrowthBranch(c) ==
    IF c.in_slow_start THEN "slow_start"
    ELSE IF c.has_data /\ c.congestion_detected THEN "conservative"
    ELSE IF c.has_data /\ ~c.congestion_detected THEN "aggressive"
    ELSE "reno"

(* A slow start that credits the whole ack whatever the flag says. *)
SlowStartCredit_full(c, acked) == acked

(* The credit handed to tcp_slow_start: halved under congestion_detected. *)
SlowStartCredit(c, acked) ==
    IF c.congestion_detected THEN acked \div 2 ELSE acked

(* The window growth of each rule. *)
ApplyGrowth(c, t, branch, acked, cwnd_delta, limited) ==
    CASE branch = "slow_start" ->
            tcp_slow_start(t, SlowStartCredit(c, acked))
      [] branch = "conservative" ->
            tcp_cong_avoid_ai(t, t.snd_cwnd, Max(1, (acked * cwnd_delta) \div 2000))
      [] branch = "aggressive" ->
            tcp_cong_avoid_ai(t, t.snd_cwnd, Max(1, (acked * cwnd_delta) \div 1000))
      [] OTHER -> tcp_reno_cong_avoid(t, acked, limited)

(* The decay without its floor. *)
PlasticityDecay_unfloored(p) == U16((p * PLASTICITY_DECAY) \div 1000)

(* A decay that rounds to the nearest integer instead of truncating.       *)
PlasticityDecay_rounded(p) ==
    LET d == U16((p * PLASTICITY_DECAY + 500) \div 1000)
    IN IF d < MIN_PLASTICITY THEN MIN_PLASTICITY ELSE d

(* Plasticity decay at the tail of cong_avoid. *)
PlasticityDecay(p) ==
    LET d == U16((p * PLASTICITY_DECAY) \div 1000)
    IN IF d < MIN_PLASTICITY THEN MIN_PLASTICITY ELSE d

(* min_t(u16, 1000, plasticity + inc). *)
PlasticityBoost(p, inc) == Min(MAX_PLASTICITY, U16(p + inc))

(* ndm_tcp_cong_avoid for acked > 0: the new ca, the new tp and the locals. *)
CongAvoidStep(c, t, acked, srtt_us, limited) ==
    LET rtt_us == RttUs(srtt_us)
        c1 == TrackRtt(c, acked, rtt_us)
        batch == BatchDue(c1)
        c2 == IF batch THEN BatchUpdate(c1) ELSE c1
        c3 == [c2 EXCEPT !.in_slow_start = (t.snd_cwnd < c2.ssthresh)]
        fp == ndm_forward_pass(c3, rtt_us)
        c4 == [c3 EXCEPT !.hidden_state = fp.hidden]
        branch == GrowthBranch(c4)
        t1 == ApplyGrowth(c4, t, branch, acked, fp.cwnd_delta, limited)
        c5 == [c4 EXCEPT !.plasticity = PlasticityDecay(c4.plasticity)]
    IN [ca |-> c5, tp |-> t1,
        call |-> [NoCall EXCEPT !.op = "cong_avoid", !.acked = acked,
                                !.srtt_us = srtt_us,
                                !.rtt_us = rtt_us, !.cwnd0 = t.snd_cwnd,
                                !.plast0 = c.plasticity,
                                !.batch = batch, !.limited = limited,
                                !.branch = branch,
                                !.output = fp.output,
                                !.cwnd_delta = fp.cwnd_delta,
                                !.info = fp.inputs]]

(* A divisor that ignores the entropy score. *)
ReductionFactor_halving(c) == 2

(* Reduction divisor chosen by ndm_tcp_ssthresh. *)
ReductionFactor(c) ==
    IF c.has_data
    THEN IF c.shannon_entropy > ENTROPY_THRESHOLD THEN 3 ELSE 2
    ELSE 2

(* The reduced window without the floor of two segments. *)
SsthreshValue_unfloored(cwnd, factor) == cwnd \div factor

(* max(snd_cwnd / reduction_factor, 2U). *)
SsthreshValue(cwnd, factor) == Max(cwnd \div factor, MIN_SSTHRESH)

(* ndm_tcp_ssthresh: the new ca. *)
SsthreshStep(c, t) ==
    [c EXCEPT !.loss_detected = TRUE,
              !.plasticity = PlasticityBoost(c.plasticity, BOOST_SSTHRESH),
              !.ssthresh = SsthreshValue(t.snd_cwnd, ReductionFactor(c)),
              !.prior_cwnd = t.snd_cwnd]

(* An undo that restores prior_cwnd whatever the window is now. *)
UndoWindow_prior(cwnd, prior_cwnd) == prior_cwnd

(* An undo that leaves the window where it is. *)
UndoWindow_keep(cwnd, prior_cwnd) == cwnd

(* The window ndm_tcp_undo_cwnd restores. *)
UndoWindow(cwnd, prior_cwnd) == Max(cwnd, prior_cwnd)

(* An idle restart that also forgets the flags and the hidden state. *)
CwndEventStep_forgetful(c, ev) ==
    CASE ev = "CA_EVENT_LOSS" ->
            [c EXCEPT !.congestion_detected = TRUE, !.loss_detected = TRUE]
      [] ev = "CA_EVENT_CWND_RESTART" ->
            [c EXCEPT !.plasticity = BASE_PLASTICITY,
                      !.congestion_detected = FALSE,
                      !.loss_detected = FALSE,
                      !.hidden_state = [i \in 0..(HIDDEN_SIZE - 1) |-> 0]]
      [] OTHER -> c

(* A loss event that boosts plasticity as a reduce request does. *)
CwndEventStep_boosting(c, ev) ==
    CASE ev = "CA_EVENT_LOSS" ->
            [c EXCEPT !.congestion_detected = TRUE, !.loss_detected = TRUE,
                      !.plasticity = Min(MAX_PLASTICITY, U16(c.plasticity + BOOST_SSTHRESH))]
      [] ev = "CA_EVENT_CWND_RESTART" ->
            [c EXCEPT !.plasticity = BASE_PLASTICITY]
      [] OTHER -> c

(* ndm_tcp_cwnd_event. *)
CwndEventStep(c, ev) ==
    CASE ev = "CA_EVENT_LOSS" ->
            [c EXCEPT !.congestion_detected = TRUE, !.loss_detected = TRUE]
      [] ev = "CA_EVENT_CWND_RESTART" ->
            [c EXCEPT !.plasticity = BASE_PLASTICITY]
      [] OTHER -> c

(* A recovery entry that boosts plasticity no more than a reduce request. *)
SetStateStep_mild(c, new_state) ==
    IF new_state = "TCP_CA_Loss"
    THEN [c EXCEPT !.congestion_detected = TRUE,
                   !.loss_detected = TRUE,
                   !.plasticity = Min(MAX_PLASTICITY, U16(c.plasticity + BOOST_SSTHRESH))]
    ELSE c

(* ndm_tcp_set_state. *)
SetStateStep(c, new_state) ==
    IF new_state = "TCP_CA_Loss"
    THEN [c EXCEPT !.congestion_detected = TRUE,
                   !.loss_detected = TRUE,
                   !.plasticity = PlasticityBoost(c.plasticity, BOOST_LOSS_STATE)]
    ELSE c

(* A snapshot that reports the minimum RTT in microseconds. *)
GetInfoStep_usec(c, vegas) ==
    IF vegas
    THEN [size |-> 16,
          info |-> <<1, c.history_count, c.min_rtt_us, c.shannon_entropy>>]
    ELSE [size |-> 0, info |-> <<>>]

(* ndm_tcp_get_info: the tcpvegas_info written, or nothing. *)
GetInfoStep(c, vegas) ==
    IF vegas
    THEN [size |-> 16,
          info |-> <<1, c.history_count, c.min_rtt_us \div 1000, c.shannon_entropy>>]
    ELSE [size |-> 0, info |-> <<>>]

----------------------------------------------------------------------------
(* Canonical tier: actions, one per handler                                *)

(* Host inputs: packets acknowledged per call, tp->srtt_us (8 * usec),     *)
(* windows the host sets after a loss, event kinds and CA states.          *)
AckedSet == {0, 1, 8}
SrttSet == {0, 80000}
HostCwndSet == {1, 2, 100}
InitCwndSet == {10, 100}
InitSsthreshSet == {TCP_INFINITE_SSTHRESH, 5}
EventSet == {"CA_EVENT_LOSS", "CA_EVENT_CWND_RESTART", "CA_EVENT_TX_START"}
StateSet == {"TCP_CA_Loss", "TCP_CA_Recovery"}

(* The state after ndm_tcp_init on a socket whose window is w and whose    *)
(* threshold is s.                                                         *)
InitAt(w, s) ==
    /\ tier = "canonical"
    /\ ca = ndm_tcp_init_ca(w, s)
    /\ tp = ndm_tcp_init_tp(w)
    /\ last = NoCall
    /\ nacks = 0
    /\ steps = 0

InitCanon == \E w \in InitCwndSet, s \in InitSsthreshSet : InitAt(w, s)

(* A connection that starts with a window of 100 and no cached threshold. *)
InitWide == InitAt(100, TCP_INFINITE_SSTHRESH)

(* An ack that would be processed even when it acknowledges nothing. *)
ZeroAck_never(acked) == FALSE

(* if (!acked) return; *)
ZeroAck(acked) == acked = 0

ndm_tcp_cong_avoid(acked, srtt_us, limited) ==
    /\ tier = "canonical"
    /\ IF ZeroAck(acked)
       THEN /\ last' = [NoCall EXCEPT !.op = "cong_avoid", !.cwnd0 = tp.snd_cwnd]
            /\ UNCHANGED <<tier, ca, tp, nacks>>
       ELSE /\ \E r \in {CongAvoidStep(ca, tp, acked, srtt_us, limited)} :
                  /\ ca' = r.ca
                  /\ tp' = r.tp
                  /\ last' = r.call
            /\ nacks' = nacks + 1
            /\ UNCHANGED tier

(* The host stores the returned threshold in snd_ssthresh. *)
ndm_tcp_ssthresh ==
    /\ tier = "canonical"
    /\ ca' = SsthreshStep(ca, tp)
    /\ tp' = [tp EXCEPT !.snd_ssthresh = ca'.ssthresh]
    /\ last' = [NoCall EXCEPT !.op = "ssthresh", !.cwnd0 = tp.snd_cwnd,
                              !.plast0 = ca.plasticity, !.ret = ca'.ssthresh]
    /\ UNCHANGED <<tier, nacks>>

ndm_tcp_undo_cwnd ==
    /\ tier = "canonical"
    /\ tp' = [tp EXCEPT !.snd_cwnd = UndoWindow(tp.snd_cwnd, ca.prior_cwnd)]
    /\ ca' = [ca EXCEPT !.in_slow_start = (tp'.snd_cwnd < ca.ssthresh)]
    /\ last' = [NoCall EXCEPT !.op = "undo_cwnd", !.cwnd0 = tp.snd_cwnd,
                              !.ret = Max(tp'.snd_cwnd, ca.prior_cwnd)]
    /\ UNCHANGED <<tier, nacks>>

ndm_tcp_cwnd_event(ev) ==
    /\ tier = "canonical"
    /\ ca' = CwndEventStep(ca, ev)
    /\ last' = [NoCall EXCEPT !.op = "cwnd_event", !.arg = ev,
                              !.cwnd0 = tp.snd_cwnd, !.plast0 = ca.plasticity]
    /\ UNCHANGED <<tier, tp, nacks>>

ndm_tcp_set_state(new_state) ==
    /\ tier = "canonical"
    /\ ca' = SetStateStep(ca, new_state)
    /\ last' = [NoCall EXCEPT !.op = "set_state", !.arg = new_state,
                              !.cwnd0 = tp.snd_cwnd, !.plast0 = ca.plasticity]
    /\ UNCHANGED <<tier, tp, nacks>>

ndm_tcp_get_info(vegas) ==
    /\ tier = "canonical"
    /\ LET r == GetInfoStep(ca, vegas)
       IN last' = [NoCall EXCEPT !.op = "get_info", !.cwnd0 = tp.snd_cwnd,
                                 !.arg = IF vegas THEN "INET_DIAG_VEGASINFO"
                                         ELSE "none",
                                 !.ret = r.size, !.info = r.info]
    /\ UNCHANGED <<tier, ca, tp, nacks>>

(* The host lowers the window on its own (loss recovery, RTO). *)
HostShrinkCwnd(w) ==
    /\ w < tp.snd_cwnd
    /\ tp' = [tp EXCEPT !.snd_cwnd = w]
    /\ last' = [NoCall EXCEPT !.op = "host_cwnd", !.cwnd0 = tp.snd_cwnd]
    /\ UNCHANGED <<tier, ca, nacks>>

----------------------------------------------------------------------------
(* Optimized tier: ndm_tcp_lkm_optimized.c.  Names that the two files      *)
(* share carry the suffix _opt here.                                       *)

ENTROPY_WINDOW_SIZE_opt == 8
HIDDEN_SIZE_opt == 4
INPUT_SIZE_opt == 6
SCALE_SHIFT == 10
ENTROPY_THRESHOLD_opt == 716
BASE_PLASTICITY_opt == 307
PLASTICITY_DECAY_opt == 1018
RECURRENT_WEIGHT == 500
BATCH_PACKETS_opt == 16
MAX_PLASTICITY_opt == 1024
SKIP_ENTROPY == 500
SKIP_PLASTICITY == 800
SKIP_LIMIT == 8
CACHED_DELTA_INIT == 512
HIST_BINS_opt == 8
BIN_SCALE == 458752
TANH_EDGE == 3072

(* Arrays are sequences here: C index k is element k + 1. *)
L1_WEIGHTS ==
    << -1000, -983, -966, -949, -932, -915,
       -963, -946, -929, -912, -895, -878,
       -926, -909, -892, -875, -858, -841,
       -889, -872, -855, -838, -821, -804 >>

OUT_WEIGHTS == << -1000, -987, -974, -961 >>

ENTROPY_LUT == << 0, 375, 500, 525, 500, 430, 310, 150, 0 >>

TANH_LUT ==
    << -1018, -1016, -1012, -1005, -993, -973, -941, -894,
       -826, -736, -626, -502, -373, -249, -135, -34,
       68, 168, 281, 404, 529, 649, 755, 841,
       906, 950, 979, 996, 1007, 1013, 1017, 1019, 1020,
       1021, 1022, 1022, 1023, 1023, 1023, 1024, 1024,
       1024, 1024, 1024, 1024, 1024, 1024, 1024, 1024,
       1024, 1024, 1024, 1024, 1024, 1024, 1024, 1024,
       1024, 1024, 1024, 1024, 1024, 1024, 1024, 1024 >>

(* 64 initialisers for 65 slots: the last slot is 0. *)
SIGMOID_LUT ==
    << 47, 58, 71, 87, 106, 129, 156, 187, 222, 261, 303, 348, 395, 443, 492, 540,
       587, 632, 675, 715, 752, 786, 816, 843, 867, 887, 905, 920, 933, 944, 953, 961,
       967, 973, 977, 981, 984, 987, 989, 991, 993, 994, 995, 996, 997, 997, 998, 998,
       999, 999, 999, 1000, 1000, 1000, 1000, 1000, 1000, 1000, 1000, 1000, 1000, 1000,
       1000, 1000, 0 >>

(* x >> n on a signed int is the floor of x / 2^n. *)
Shr(x, n) == x \div (2 ^ n)

(* The flag byte as the set of the flags that are set. *)
FLAG_HAS_DATA == "FLAG_HAS_DATA"
FLAG_SLOW_START == "FLAG_SLOW_START"
FLAG_CONGESTION == "FLAG_CONGESTION"
FLAG_LOSS == "FLAG_LOSS"

set_flag(c, flag) == [c EXCEPT !.flags = c.flags \cup flag]
clear_flag(c, flag) == [c EXCEPT !.flags = c.flags \ flag]
check_flag(c, flag) == flag \in c.flags

(* The table index is taken modulo 64 (idx & 63). *)
fast_tanh(x) ==
    IF x <= -TANH_EDGE THEN -1024
    ELSE IF x >= TANH_EDGE THEN 1024
    ELSE TANH_LUT[(Shr(x + TANH_EDGE, 6) % 64) + 1]

fast_sigmoid(x) ==
    IF x <= -TANH_EDGE THEN 0
    ELSE IF x >= TANH_EDGE THEN 1024
    ELSE SIGMOID_LUT[(Shr(x + TANH_EDGE, 6) % 64) + 1]

(* calculate_entropy_fast: 8 bins between the minimum and the maximum of   *)
(* the history_count samples, and the sum of ENTROPY_LUT[count] over the   *)
(* occupied bins.  min_val starts at 0xFFFF and max_val at 0.              *)
FastMinVal(c) ==
    LET S == {c.rtt_history[i] : i \in 0..(c.history_count - 1)} \cup {65535}
    IN CHOOSE m \in S : \A x \in S : m <= x

FastMaxVal(c) ==
    LET S == {c.rtt_history[i] : i \in 0..(c.history_count - 1)} \cup {0}
    IN CHOOSE m \in S : \A x \in S : m >= x

FastBin(h, min_val, scale) ==
    Min(Shr((h - min_val) * scale, 16), HIST_BINS_opt - 1)

FastHistogram(c) ==
    LET min_val == FastMinVal(c)
        range == U16(FastMaxVal(c) - min_val)
        scale == BIN_SCALE \div range
    IN [b \in 0..(HIST_BINS_opt - 1) |->
          Cardinality({i \in 0..(c.history_count - 1) :
                         FastBin(c.rtt_history[i], min_val, scale) = b})]

FastLutSum(histogram) ==
    SumTo([b \in 0..(HIST_BINS_opt - 1) |->
              IF histogram[b] > 0 THEN ENTROPY_LUT[histogram[b] + 1] ELSE 0],
          HIST_BINS_opt)

calculate_entropy_fast(c) ==
    IF U16(FastMaxVal(c) - FastMinVal(c)) = 0 THEN 0
    ELSE FastLutSum(FastHistogram(c))

(* input_vec[0..5] of ndm_forward_pass_opt.  The model's RTTs are below    *)
(* 2^21 us, so rtt_us << 10 is exact here.                                 *)
ForwardInputs_opt(c, rtt_us) ==
    [j \in 0..(INPUT_SIZE_opt - 1) |->
        CASE j = 0 -> Min((rtt_us * (2 ^ SCALE_SHIFT)) \div Max(1, c.min_rtt_us),
                          2048) - 1024
          [] j = 1 -> c.shannon_entropy
          [] j = 2 -> IF check_flag(c, FLAG_SLOW_START) THEN 1024 ELSE -1024
          [] j = 3 -> IF check_flag(c, FLAG_CONGESTION) THEN -1024 ELSE 1024
          [] j = 4 -> c.plasticity - 512
          [] OTHER -> IF check_flag(c, FLAG_LOSS) THEN -1024 ELSE 1024]

(* hidden_accum[i]; the AVX path forms the same sum for row 0. *)
HiddenAccum(input_vec, i) ==
    SumTo([j \in 0..(INPUT_SIZE_opt - 1) |->
              input_vec[j] * L1_WEIGHTS[i * INPUT_SIZE_opt + j + 1]],
          INPUT_SIZE_opt)

HiddenUnit_opt(c, input_vec, i) ==
    fast_tanh(Shr(HiddenAccum(input_vec, i) + c.hidden_state[i] * RECURRENT_WEIGHT,
                  SCALE_SHIFT))

ForwardOutput_opt(hidden) ==
    Shr(SumTo([i \in 0..(HIDDEN_SIZE_opt - 1) |-> hidden[i] * OUT_WEIGHTS[i + 1]],
              HIDDEN_SIZE_opt),
        SCALE_SHIFT)

ndm_forward_pass_opt(c, rtt_us) ==
    LET input_vec == ForwardInputs_opt(c, rtt_us)
        hidden == [i \in 0..(HIDDEN_SIZE_opt - 1) |-> HiddenUnit_opt(c, input_vec, i)]
        output_sum == ForwardOutput_opt(hidden)
    IN [inputs |-> input_vec, hidden |-> hidden, output |-> output_sum,
        cwnd_delta |-> IF c.shannon_entropy > ENTROPY_THRESHOLD_opt
                       THEN fast_sigmoid(Shr(output_sum, 1))
                       ELSE fast_sigmoid(output_sum)]

(* ndm_tcp_init of the optimized tier. *)
ndm_tcp_init_ca_opt(cwnd, ssthresh) ==
    [min_rtt_us |-> U32_MAX,
     prior_cwnd |-> cwnd,
     ssthresh |-> ssthresh,
     cached_cwnd_delta |-> CACHED_DELTA_INIT,
     plasticity |-> BASE_PLASTICITY_opt,
     shannon_entropy |-> 0,
     packets_acked |-> 0,
     history_index |-> 0,
     history_count |-> 0,
     flags |-> {FLAG_SLOW_START},
     nn_skip_counter |-> 0,
     hidden_state |-> [i \in 0..(HIDDEN_SIZE_opt - 1) |-> 0],
     rtt_history |-> [i \in 0..(ENTROPY_WINDOW_SIZE_opt - 1) |-> 0]]

(* rtt_us = max(srtt_us >> 3, 1); the stored sample may be 0 ms. *)
RttUs_opt(srtt_us) == Max(srtt_us \div 8, 1)
RttMs_opt(rtt_us) == U16(Min(rtt_us \div 1000, 65535))

TrackRtt_opt(c, acked, rtt_us) ==
    [c EXCEPT !.packets_acked = U16(c.packets_acked + acked),
              !.min_rtt_us = IF rtt_us < c.min_rtt_us THEN rtt_us ELSE c.min_rtt_us,
              !.rtt_history[c.history_index] = RttMs_opt(rtt_us),
              !.history_index = (c.history_index + 1) % ENTROPY_WINDOW_SIZE_opt,
              !.history_count = IF c.history_count < ENTROPY_WINDOW_SIZE_opt
                                THEN c.history_count + 1 ELSE c.history_count]

BatchDue_opt(c) == c.packets_acked >= BATCH_PACKETS_opt

BatchUpdate_opt(c) ==
    LET e == U16(calculate_entropy_fast(c))
        c1 == [c EXCEPT !.shannon_entropy = e, !.packets_acked = 0]
        c2 == set_flag(c1, {FLAG_HAS_DATA})
        c3 == IF e < ENTROPY_THRESHOLD_opt
              THEN set_flag(c2, {FLAG_CONGESTION})
              ELSE clear_flag(c2, {FLAG_CONGESTION})
    IN clear_flag(c3, {FLAG_LOSS})

(* An elision test without the bound on consecutive reuses. *)
SkipForward_unbounded(c) ==
    /\ c.shannon_entropy < SKIP_ENTROPY
    /\ c.plasticity > SKIP_PLASTICITY

(* The compute-elision test: reuse the cached growth signal. *)
SkipForward(c) ==
    /\ c.shannon_entropy < SKIP_ENTROPY
    /\ c.plasticity > SKIP_PLASTICITY
    /\ c.nn_skip_counter < SKIP_LIMIT

GrowthBranch_opt(c) ==
    IF check_flag(c, FLAG_SLOW_START) THEN "slow_start"
    ELSE IF check_flag(c, FLAG_HAS_DATA)
    THEN IF check_flag(c, FLAG_CONGESTION) THEN "conservative" ELSE "aggressive"
    ELSE "reno"

ApplyGrowth_opt(c, t, branch, acked, cwnd_delta, limited) ==
    CASE branch = "slow_start" ->
            tcp_slow_start(t, IF check_flag(c, FLAG_CONGESTION)
                              THEN Shr(acked, 1) ELSE acked)
      [] branch = "conservative" ->
            tcp_cong_avoid_ai(t, t.snd_cwnd, Max(1, Shr(acked * cwnd_delta, 11)))
      [] branch = "aggressive" ->
            tcp_cong_avoid_ai(t, t.snd_cwnd, Max(1, Shr(acked * cwnd_delta, 10)))
      [] OTHER -> tcp_reno_cong_avoid(t, acked, limited)

PlasticityDecay_opt(p) ==
    LET d == U16(Shr(p * PLASTICITY_DECAY_opt, SCALE_SHIFT))
    IN IF d < MIN_PLASTICITY THEN MIN_PLASTICITY ELSE d

PlasticityBoost_opt(p, inc) == U16(Min(MAX_PLASTICITY_opt, p + inc))

(* A growth signal that is always the fresh network output. *)
GrowthSignal_fresh(skip, cached, fresh) == fresh

(* The growth signal of the ack: the cached one when the network is        *)
(* elided, the fresh network output otherwise.                             *)
GrowthSignal_opt(skip, cached, fresh) == IF skip THEN cached ELSE fresh

(* ndm_tcp_cong_avoid of the optimized tier for acked > 0. *)
CongAvoidStep_opt(c, t, acked, srtt_us, limited) ==
    LET rtt_us == RttUs_opt(srtt_us)
        c1 == TrackRtt_opt(c, acked, rtt_us)
        batch == BatchDue_opt(c1)
        c2 == IF batch THEN BatchUpdate_opt(c1) ELSE c1
        c3 == IF t.snd_cwnd < c2.ssthresh
              THEN set_flag(c2, {FLAG_SLOW_START})
              ELSE clear_flag(c2, {FLAG_SLOW_START})
        skip == SkipForward(c3)
        fp == ndm_forward_pass_opt(c3, rtt_us)
        cwnd_delta == GrowthSignal_opt(skip, c3.cached_cwnd_delta, fp.cwnd_delta)
        c4 == IF skip
              THEN [c3 EXCEPT !.nn_skip_counter = U8(c3.nn_skip_counter + 1)]
              ELSE [c3 EXCEPT !.hidden_state = fp.hidden,
                              !.cached_cwnd_delta = fp.cwnd_delta,
                              !.nn_skip_counter = 0]
        branch == GrowthBranch_opt(c4)
        t1 == ApplyGrowth_opt(c4, t, branch, acked, cwnd_delta, limited)
        c5 == [c4 EXCEPT !.plasticity = PlasticityDecay_opt(c4.plasticity)]
    IN [ca |-> c5, tp |-> t1,
        call |-> [NoCall EXCEPT !.op = "cong_avoid", !.acked = acked,
                                !.srtt_us = srtt_us,
                                !.rtt_us = rtt_us, !.cwnd0 = t.snd_cwnd,
                                !.plast0 = c.plasticity,
                                !.batch = batch, !.limited = limited,
                                !.branch = branch,
                                !.output = IF skip THEN 0 ELSE fp.output,
                                !.cwnd_delta = cwnd_delta,
                                !.arg = IF skip THEN "skipped" ELSE "computed"]]

(* The divisor of the optimized ndm_tcp_ssthresh: no has_data test. *)
ReductionFactor_opt(c) ==
    IF c.shannon_entropy > ENTROPY_THRESHOLD_opt THEN 3 ELSE 2

SsthreshStep_opt(c, t) ==
    [set_flag(c, {FLAG_LOSS, FLAG_CONGESTION}) EXCEPT
        !.plasticity = PlasticityBoost_opt(c.plasticity, BOOST_SSTHRESH),
        !.ssthresh = SsthreshValue(t.snd_cwnd, ReductionFactor_opt(c)),
        !.prior_cwnd = t.snd_cwnd]

UndoWindow_opt(cwnd, prior_cwnd) == Max(cwnd, prior_cwnd)

(* The undo handler only ever sets the slow-start flag. *)
UndoFlags_opt(c, cwnd) ==
    IF cwnd < c.ssthresh THEN set_flag(c, {FLAG_SLOW_START}) ELSE c

CwndEventStep_opt(c, ev) ==
    CASE ev = "CA_EVENT_LOSS" -> set_flag(c, {FLAG_CONGESTION, FLAG_LOSS})
      [] ev = "CA_EVENT_CWND_RESTART" -> [c EXCEPT !.plasticity = BASE_PLASTICITY_opt]
      [] OTHER -> c

SetStateStep_opt(c, new_state) ==
    IF new_state = "TCP_CA_Loss"
    THEN [set_flag(c, {FLAG_CONGESTION, FLAG_LOSS}) EXCEPT
             !.plasticity = PlasticityBoost_opt(c.plasticity, BOOST_LOSS_STATE)]
    ELSE c

----------------------------------------------------------------------------
(* Optimized tier: actions, one per handler                                *)

InitAt_opt(w, s) ==
    /\ tier = "optimized"
    /\ ca = ndm_tcp_init_ca_opt(w, s)
    /\ tp = ndm_tcp_init_tp(w)
    /\ last = NoCall
    /\ nacks = 0
    /\ steps = 0

InitOpt == \E w \in InitCwndSet, s \in InitSsthreshSet : InitAt_opt(w, s)

ndm_tcp_cong_avoid_opt(acked, srtt_us, limited) ==
    /\ tier = "optimized"
    /\ IF ZeroAck(acked)
       THEN /\ last' = [NoCall EXCEPT !.op = "cong_avoid", !.cwnd0 = tp.snd_cwnd]
            /\ UNCHANGED <<tier, ca, tp, nacks>>
       ELSE /\ \E r \in {CongAvoidStep_opt(ca, tp, acked, srtt_us, limited)} :
                  /\ ca' = r.ca
                  /\ tp' = r.tp
                  /\ last' = r.call
            /\ nacks' = nacks + 1
            /\ UNCHANGED tier

ndm_tcp_ssthresh_opt ==
    /\ tier = "optimized"
    /\ ca' = SsthreshStep_opt(ca, tp)
    /\ tp' = [tp EXCEPT !.snd_ssthresh = ca'.ssthresh]
    /\ last' = [NoCall EXCEPT !.op = "ssthresh", !.cwnd0 = tp.snd_cwnd,
                              !.plast0 = ca.plasticity, !.ret = ca'.ssthresh]
    /\ UNCHANGED <<tier, nacks>>

ndm_tcp_undo_cwnd_opt ==
    /\ tier = "optimized"
    /\ tp' = [tp EXCEPT !.snd_cwnd = UndoWindow_opt(tp.snd_cwnd, ca.prior_cwnd)]
    /\ ca' = UndoFlags_opt(ca, tp'.snd_cwnd)
    /\ last' = [NoCall EXCEPT !.op = "undo_cwnd", !.cwnd0 = tp.snd_cwnd,
                              !.ret = tp'.snd_cwnd]
    /\ UNCHANGED <<tier, nacks>>

ndm_tcp_cwnd_event_opt(ev) ==
    /\ tier = "optimized"
    /\ ca' = CwndEventStep_opt(ca, ev)
    /\ last' = [NoCall EXCEPT !.op = "cwnd_event", !.arg = ev,
                              !.cwnd0 = tp.snd_cwnd, !.plast0 = ca.plasticity]
    /\ UNCHANGED <<tier, tp, nacks>>

ndm_tcp_set_state_opt(new_state) ==
    /\ tier = "optimized"
    /\ ca' = SetStateStep_opt(ca, new_state)
    /\ last' = [NoCall EXCEPT !.op = "set_state", !.arg = new_state,
                              !.cwnd0 = tp.snd_cwnd, !.plast0 = ca.plasticity]
    /\ UNCHANGED <<tier, tp, nacks>>

ndm_tcp_get_info_opt(vegas) ==
    /\ tier = "optimized"
    /\ LET r == GetInfoStep(ca, vegas)
       IN last' = [NoCall EXCEPT !.op = "get_info", !.cwnd0 = tp.snd_cwnd,
                                 !.arg = IF vegas THEN "INET_DIAG_VEGASINFO"
                                         ELSE "none",
                                 !.ret = r.size, !.info = r.info]
    /\ UNCHANGED <<tier, ca, tp, nacks>>

----------------------------------------------------------------------------
(* Ultra tier: ndm_tcp_lkm_optimized_ultra.c (8-bit state).  Names that    *)
(* the files share carry the suffix _ultra here.                           *)

FP_SCALE == 7
ENTROPY_WINDOW_SIZE_ultra == 8
HIDDEN_SIZE_ultra == 4
INPUT_SIZE_ultra == 6
ENTROPY_THRESHOLD_ultra == 180
BASE_PLASTICITY_ultra == 76
RECURRENT_WEIGHT_ultra == 62
BATCH_PACKETS_ultra == 16
MAX_PLASTICITY_ultra == 255
MIN_PLASTICITY_ultra == 25
BOOST_SSTHRESH_ultra == 40
BOOST_LOSS_STATE_ultra == 50
SKIP_ENTROPY_ultra == 128
SKIP_PLASTICITY_ultra == 200
SKIP_LIMIT_ultra == 16
HIST_BINS_ultra == 8
RTT_INPUT_MAX == 127
SIGMOID_EDGE == 64

S8(x) == LET m == x % 256 IN IF m >= 128 THEN m - 256 ELSE m

L1_WEIGHTS_ultra ==
    << -125, -123, -121, -119, -117, -115,
       -120, -118, -116, -114, -112, -110,
       -115, -113, -111, -109, -107, -105,
       -111, -109, -107, -105, -103, -101 >>

OUT_WEIGHTS_ultra == << -125, -123, -121, -120 >>

ENTROPY_LUT_ultra == << 0, 47, 63, 66, 63, 54, 39, 19, 0 >>

(* The 128 entries of the curve; the other 128 slots of the table hold 127. *)
TANH_CURVE_S8 ==
    << -127,-127,-127,-127,-127,-127,-127,-127,-127,-127,-127,-127,-127,-127,-126,-126,
       -126,-125,-125,-124,-124,-123,-122,-121,-120,-119,-118,-117,-115,-114,-112,-110,
       -108,-106,-104,-101,-99, -96, -93, -90, -87, -84, -80, -77, -73, -69, -65, -61,
       -57, -53, -49, -45, -40, -36, -32, -27, -23, -19, -14, -10,  -6,  -2,   2,   6,
        10,  14,  19,  23,  27,  32,  36,  40,  45,  49,  53,  57,  61,  65,  69,  73,
        77,  80,  84,  87,  90,  93,  96,  99, 101, 104, 106, 108, 110, 112, 114, 115,
       117, 118, 119, 120, 121, 122, 123, 124, 124, 125, 125, 126, 126, 126, 127, 127,
       127, 127, 127, 127, 127, 127, 127, 127, 127, 127, 127, 127, 127, 127, 127, 127 >>

TANH_LUT_S8 == [k \in 1..256 |-> IF k <= Len(TANH_CURVE_S8) THEN TANH_CURVE_S8[k] ELSE 127]

fast_tanh_s8(x) ==
    LET idx == x + 128
    IN IF idx < 0 THEN -127
       ELSE IF idx > 255 THEN 127
       ELSE TANH_LUT_S8[idx + 1]

fast_sigmoid_u32(x) ==
    IF x <= -SIGMOID_EDGE THEN 0
    ELSE IF x >= SIGMOID_EDGE THEN 1024
    ELSE (x + SIGMOID_EDGE) * 8

(* calculate_entropy_fast_u8: minimum and maximum over all eight slots,    *)
(* written or not; the bin is the offset shifted right by a step chosen    *)
(* from the range; the sum of the table entries is kept in a u8.           *)
MinVal_ultra(c) ==
    LET S == {c.rtt_history[i] : i \in 0..(ENTROPY_WINDOW_SIZE_ultra - 1)}
    IN CHOOSE m \in S : \A x \in S : m <= x

MaxVal_ultra(c) ==
    LET S == {c.rtt_history[i] : i \in 0..(ENTROPY_WINDOW_SIZE_ultra - 1)}
    IN CHOOSE m \in S : \A x \in S : m >= x

BinShift(range) ==
    IF range > 128 THEN 5
    ELSE IF range > 64 THEN 4
    ELSE IF range > 32 THEN 3
    ELSE IF range > 16 THEN 2
    ELSE IF range > 8 THEN 1
    ELSE 0

Bin_ultra(h, min_val, shift) == Min(U8(Shr(h - min_val, shift)), HIST_BINS_ultra - 1)

Histogram_ultra(c) ==
    LET min_val == MinVal_ultra(c)
        shift == BinShift(U8(MaxVal_ultra(c) - min_val))
    IN [b \in 0..(HIST_BINS_ultra - 1) |->
          Cardinality({i \in 0..(ENTROPY_WINDOW_SIZE_ultra - 1) :
                         Bin_ultra(c.rtt_history[i], min_val, shift) = b})]

LutSum_ultra(histogram) ==
    SumTo([b \in 0..(HIST_BINS_ultra - 1) |->
              IF histogram[b] > 0 THEN ENTROPY_LUT_ultra[histogram[b] + 1] ELSE 0],
          HIST_BINS_ultra)

calculate_entropy_fast_u8(c) ==
    IF U8(MaxVal_ultra(c) - MinVal_ultra(c)) = 0 THEN 0
    ELSE U8(LutSum_ultra(Histogram_ultra(c)))

(* input_vec[0..5] of ndm_forward_pass_int8, each cast to s8. *)
ForwardInputs_ultra(c, rtt_us) ==
    [j \in 0..(INPUT_SIZE_ultra - 1) |->
        CASE j = 0 -> S8(Min(Shr(rtt_us, 6), RTT_INPUT_MAX))
          [] j = 1 -> S8(c.shannon_entropy - 128)
          [] j = 2 -> IF check_flag(c, FLAG_SLOW_START) THEN 127 ELSE -127
          [] j = 3 -> IF check_flag(c, FLAG_CONGESTION) THEN -127 ELSE 127
          [] j = 4 -> S8(c.plasticity - 128)
          [] OTHER -> IF check_flag(c, FLAG_LOSS) THEN -127 ELSE 127]

HiddenAccum_ultra(input_vec, i) ==
    SumTo([j \in 0..(INPUT_SIZE_ultra - 1) |->
              input_vec[j] * L1_WEIGHTS_ultra[i * INPUT_SIZE_ultra + j + 1]],
          INPUT_SIZE_ultra)

HiddenUnit_ultra(c, input_vec, i) ==
    fast_tanh_s8(Shr(HiddenAccum_ultra(input_vec, i), FP_SCALE)
                 + Shr(c.hidden_state[i] * RECURRENT_WEIGHT_ultra, FP_SCALE))

ForwardOutput_ultra(hidden) ==
    Shr(SumTo([i \in 0..(HIDDEN_SIZE_ultra - 1) |->
                  hidden[i] * OUT_WEIGHTS_ultra[i + 1]],
              HIDDEN_SIZE_ultra),
        FP_SCALE)

ndm_forward_pass_int8(c, rtt_us) ==
    LET input_vec == ForwardInputs_ultra(c, rtt_us)
        hidden == [i \in 0..(HIDDEN_SIZE_ultra - 1) |->
                      HiddenUnit_ultra(c, input_vec, i)]
        output_sum == ForwardOutput_ultra(hidden)
    IN [inputs |-> input_vec, hidden |-> hidden, output |-> output_sum,
        cwnd_delta |-> IF c.shannon_entropy > ENTROPY_THRESHOLD_ultra
                       THEN fast_sigmoid_u32(Shr(output_sum, 1))
                       ELSE fast_sigmoid_u32(output_sum)]

(* ndm_tcp_init of the ultra tier. *)
ndm_tcp_init_ca_ultra(cwnd, ssthresh) ==
    [min_rtt_us |-> U32_MAX,
     prior_cwnd |-> cwnd,
     ssthresh |-> ssthresh,
     cached_cwnd_delta |-> CACHED_DELTA_INIT,
     packets_acked |-> 0,
     plasticity |-> BASE_PLASTICITY_ultra,
     shannon_entropy |-> 0,
     history_index |-> 0,
     history_count |-> 0,
     flags |-> {FLAG_SLOW_START},
     nn_skip_counter |-> 0,
     hidden_state |-> [i \in 0..(HIDDEN_SIZE_ultra - 1) |-> 0],
     rtt_history |-> [i \in 0..(ENTROPY_WINDOW_SIZE_ultra - 1) |-> 0]]

(* The stored sample: 32 us units, at most 255. *)
RttSample_ultra(rtt_us) == U8(Min(Shr(rtt_us, 5), 255))

TrackRtt_ultra(c, acked, rtt_us) ==
    [c EXCEPT !.packets_acked = U16(c.packets_acked + acked),
              !.min_rtt_us = IF rtt_us < c.min_rtt_us THEN rtt_us ELSE c.min_rtt_us,
              !.rtt_history[c.history_index] = RttSample_ultra(rtt_us),
              !.history_index = (c.history_index + 1) % ENTROPY_WINDOW_SIZE_ultra,
              !.history_count = IF c.history_count < ENTROPY_WINDOW_SIZE_ultra
                                THEN c.history_count + 1 ELSE c.history_count]

BatchDue_ultra(c) == c.packets_acked >= BATCH_PACKETS_ultra

BatchUpdate_ultra(c) ==
    LET e == calculate_entropy_fast_u8(c)
        c1 == [c EXCEPT !.shannon_entropy = e, !.packets_acked = 0]
        c2 == set_flag(c1, {FLAG_HAS_DATA})
        c3 == IF e < ENTROPY_THRESHOLD_ultra
              THEN set_flag(c2, {FLAG_CONGESTION})
              ELSE clear_flag(c2, {FLAG_CONGESTION})
    IN clear_flag(c3, {FLAG_LOSS})

SkipForward_ultra(c) ==
    /\ c.shannon_entropy < SKIP_ENTROPY_ultra
    /\ c.plasticity > SKIP_PLASTICITY_ultra
    /\ c.nn_skip_counter < SKIP_LIMIT_ultra

(* if (plasticity > 25) plasticity--; *)
PlasticityDecay_ultra(p) == IF p > MIN_PLASTICITY_ultra THEN p - 1 ELSE p

PlasticityBoost_ultra(p, inc) == U8(Min(MAX_PLASTICITY_ultra, p + inc))

(* ndm_tcp_cong_avoid of the ultra tier for acked > 0.  The growth rules   *)
(* are those of the optimized tier.                                        *)
CongAvoidStep_ultra(c, t, acked, srtt_us, limited) ==
    LET rtt_us == RttUs_opt(srtt_us)
        c1 == TrackRtt_ultra(c, acked, rtt_us)
        batch == BatchDue_ultra(c1)
        c2 == IF batch THEN BatchUpdate_ultra(c1) ELSE c1
        c3 == IF t.snd_cwnd < c2.ssthresh
              THEN set_flag(c2, {FLAG_SLOW_START})
              ELSE clear_flag(c2, {FLAG_SLOW_START})
        skip == SkipForward_ultra(c3)
        fp == ndm_forward_pass_int8(c3, rtt_us)
        cwnd_delta == IF skip THEN c3.cached_cwnd_delta ELSE fp.cwnd_delta
        c4 == IF skip
              THEN [c3 EXCEPT !.nn_skip_counter = U8(c3.nn_skip_counter + 1)]
              ELSE [c3 EXCEPT !.hidden_state = fp.hidden,
                              !.cached_cwnd_delta = fp.cwnd_delta,
                              !.nn_skip_counter = 0]
        branch == GrowthBranch_opt(c4)
        t1 == ApplyGrowth_opt(c4, t, branch, acked, cwnd_delta, limited)
        c5 == [c4 EXCEPT !.plasticity = PlasticityDecay_ultra(c4.plasticity)]
    IN [ca |-> c5, tp |-> t1,
        call |-> [NoCall EXCEPT !.op = "cong_avoid", !.acked = acked,
                                !.srtt_us = srtt_us,
                                !.rtt_us = rtt_us, !.cwnd0 = t.snd_cwnd,
                                !.plast0 = c.plasticity,
                                !.batch = batch, !.limited = limited,
                                !.branch = branch,
                                !.output = IF skip THEN 0 ELSE fp.output,
                                !.cwnd_delta = cwnd_delta,
                                !.arg = IF skip THEN "skipped" ELSE "computed"]]

ReductionFactor_ultra(c) ==
    IF c.shannon_entropy > ENTROPY_THRESHOLD_ultra THEN 3 ELSE 2

SsthreshStep_ultra(c, t) ==
    [set_flag(c, {FLAG_LOSS, FLAG_CONGESTION}) EXCEPT
        !.plasticity = PlasticityBoost_ultra(c.plasticity, BOOST_SSTHRESH_ultra),
        !.ssthresh = SsthreshValue(t.snd_cwnd, ReductionFactor_ultra(c)),
        !.prior_cwnd = t.snd_cwnd]

CwndEventStep_ultra(c, ev) ==
    CASE ev = "CA_EVENT_LOSS" -> set_flag(c, {FLAG_CONGESTION, FLAG_LOSS})
      [] ev = "CA_EVENT_CWND_RESTART" -> [c EXCEPT !.plasticity = BASE_PLASTICITY_ultra]
      [] OTHER -> c

SetStateStep_ultra(c, new_state) ==
    IF new_state = "TCP_CA_Loss"
    THEN [set_flag(c, {FLAG_CONGESTION, FLAG_LOSS}) EXCEPT
             !.plasticity = PlasticityBoost_ultra(c.plasticity, BOOST_LOSS_STATE_ultra)]
    ELSE c

----------------------------------------------------------------------------
(* Ultra tier: actions, one per handler                                    *)

InitAt_ultra(w, s) ==
    /\ tier = "ultra"
    /\ ca = ndm_tcp_init_ca_ultra(w, s)
    /\ tp = ndm_tcp_init_tp(w)
    /\ last = NoCall
    /\ nacks = 0
    /\ steps = 0

InitUltra == \E w \in InitCwndSet, s \in InitSsthreshSet : InitAt_ultra(w, s)

ndm_tcp_cong_avoid_ultra(acked, srtt_us, limited) ==
    /\ tier = "ultra"
    /\ IF ZeroAck(acked)
       THEN /\ last' = [NoCall EXCEPT !.op = "cong_avoid", !.cwnd0 = tp.snd_cwnd]
            /\ UNCHANGED <<tier, ca, tp, nacks>>
       ELSE /\ \E r \in {CongAvoidStep_ultra(ca, tp, acked, srtt_us, limited)} :
                  /\ ca' = r.ca
                  /\ tp' = r.tp
                  /\ last' = r.call
            /\ nacks' = nacks + 1
            /\ UNCHANGED tier

ndm_tcp_ssthresh_ultra ==
    /\ tier = "ultra"
    /\ ca' = SsthreshStep_ultra(ca, tp)
    /\ tp' = [tp EXCEPT !.snd_ssthresh = ca'.ssthresh]
    /\ last' = [NoCall EXCEPT !.op = "ssthresh", !.cwnd0 = tp.snd_cwnd,
                              !.plast0 = ca.plasticity, !.ret = ca'.ssthresh]
    /\ UNCHANGED <<tier, nacks>>

ndm_tcp_undo_cwnd_ultra ==
    /\ tier = "ultra"
    /\ tp' = [tp EXCEPT !.snd_cwnd = UndoWindow_opt(tp.snd_cwnd, ca.prior_cwnd)]
    /\ ca' = UndoFlags_opt(ca, tp'.snd_cwnd)
    /\ last' = [NoCall EXCEPT !.op = "undo_cwnd", !.cwnd0 = tp.snd_cwnd,
                              !.ret = tp'.snd_cwnd]
    /\ UNCHANGED <<tier, nacks>>

ndm_tcp_cwnd_event_ultra(ev) ==
    /\ tier = "ultra"
    /\ ca' = CwndEventStep_ultra(ca, ev)
    /\ last' = [NoCall EXCEPT !.op = "cwnd_event", !.arg = ev,
                              !.cwnd0 = tp.snd_cwnd, !.plast0 = ca.plasticity]
    /\ UNCHANGED <<tier, tp, nacks>>

ndm_tcp_set_state_ultra(new_state) ==
    /\ tier = "ultra"
    /\ ca' = SetStateStep_ultra(ca, new_state)
    /\ last' = [NoCall EXCEPT !.op = "set_state", !.arg = new_state,
                              !.cwnd0 = tp.snd_cwnd, !.plast0 = ca.plasticity]
    /\ UNCHANGED <<tier, tp, nacks>>

ndm_tcp_get_info_ultra(vegas) ==
    /\ tier = "ultra"
    /\ LET r == GetInfoStep(ca, vegas)
       IN last' = [NoCall EXCEPT !.op = "get_info", !.cwnd0 = tp.snd_cwnd,
                                 !.arg = IF vegas THEN "INET_DIAG_VEGASINFO"
                                         ELSE "none",
                                 !.ret = r.size, !.info = r.info]
    /\ UNCHANGED <<tier, ca, tp, nacks>>

----------------------------------------------------------------------------
(* Specification Spec: every handler with every input, in any order, up to *)
(* MaxSteps calls after construction.                                      *)

MaxSteps == 3

Budget == steps < MaxSteps /\ steps' = steps + 1

Next ==
    \/ \E a \in AckedSet, s \in SrttSet, l \in BOOLEAN :
          Budget /\ ndm_tcp_cong_avoid(a, s, l)
    \/ Budget /\ ndm_tcp_ssthresh
    \/ Budget /\ ndm_tcp_undo_cwnd
    \/ \E ev \in EventSet : Budget /\ ndm_tcp_cwnd_event(ev)
    \/ \E st \in StateSet : Budget /\ ndm_tcp_set_state(st)
    \/ \E v \in BOOLEAN : Budget /\ ndm_tcp_get_info(v)
    \/ \E w \in HostCwndSet : Budget /\ HostShrinkCwnd(w)

Spec == InitCanon /\ [][Next]_vars

----------------------------------------------------------------------------
(* Specification SpecPlast: a loss episode before the first EarlyAcks      *)
(* acknowledgments (reduce requests, loss events, recovery entries and     *)
(* idle restarts in any number and order), a steady stream of one-packet   *)
(* acks with a constant RTT, and a second loss episode after MaxRun acks.  *)

MaxRun == 370
EarlyAcks == 1
SteadySrttSet == {80000}

EpisodeOpen == nacks < EarlyAcks \/ nacks >= MaxRun

NextPlast ==
    \/ \E s \in SteadySrttSet :
          nacks < MaxRun /\ ndm_tcp_cong_avoid(1, s, TRUE) /\ UNCHANGED steps
    \/ EpisodeOpen /\ ndm_tcp_ssthresh /\ UNCHANGED steps
    \/ EpisodeOpen /\ ndm_tcp_set_state("TCP_CA_Loss") /\ UNCHANGED steps
    \/ EpisodeOpen /\ ndm_tcp_cwnd_event("CA_EVENT_LOSS") /\ UNCHANGED steps
    \/ EpisodeOpen /\ ndm_tcp_cwnd_event("CA_EVENT_CWND_RESTART") /\ UNCHANGED steps

SpecPlast == InitWide /\ [][NextPlast]_vars

----------------------------------------------------------------------------
(* Specification SpecBatch: one-packet acks whose RTT is 10 ms or 50 ms up  *)
(* to the first batch of BATCH_PACKETS, a loss episode of up to MaxEpisode *)
(* calls (reduce, host-side shrinking, undo) right after that batch, and   *)
(* further acks of one packet or a whole batch at 50 ms, MaxBatchAcks acks *)
(* in all.                                                                 *)

MaxBatchAcks == 9
MaxEpisode == 2
EpisodeCwndSet == {2, 100}

BatchSrttSet == IF nacks < BATCH_PACKETS THEN {80000, 400000} ELSE {400000}
BatchAckedSet == IF nacks < BATCH_PACKETS THEN {1} ELSE {1, BATCH_PACKETS}

BatchAcks ==
    /\ nacks < MaxBatchAcks
    /\ \E a \in BatchAckedSet, s \in BatchSrttSet : ndm_tcp_cong_avoid(a, s, TRUE)
    /\ UNCHANGED steps

BatchEpisode ==
    /\ nacks = BATCH_PACKETS
    /\ steps < MaxEpisode
    /\ steps' = steps + 1

NextBatch ==
    \/ BatchAcks
    \/ BatchEpisode /\ ndm_tcp_ssthresh
    \/ BatchEpisode /\ ndm_tcp_undo_cwnd
    \/ \E w \in EpisodeCwndSet : BatchEpisode /\ HostShrinkCwnd(w)

SpecBatch == InitWide /\ [][NextBatch]_vars

----------------------------------------------------------------------------
(* Specification SpecEntropy: the estimator as a function of the history.  *)
(* The history holds `n` valid samples: the first MaxFree are drawn freely *)
(* from SampleSet, the others share one drawn value; slots never written   *)
(* hold 0.  The one action is the periodic recomputation of cong_avoid.    *)

MaxFree == 3
SampleSet == {1, 2, 10, 50, 65535}
CountSet == {0, 1, 7, 8, 9, 15, 16}

DrawnHistory(free, rest, n) ==
    [i \in 0..(ENTROPY_WINDOW_SIZE - 1) |->
        IF i >= n THEN 0 ELSE IF i < MaxFree THEN free[i] ELSE rest]

InitEntropy ==
    /\ tier = "canonical"
    /\ \E n \in CountSet, rest \in SampleSet,
          free \in [0..(MaxFree - 1) -> SampleSet] :
          ca = [ndm_tcp_init_ca(10, TCP_INFINITE_SSTHRESH) EXCEPT
                   !.rtt_history = DrawnHistory(free, rest, n),
                   !.history_count = n,
                   !.history_index = n % ENTROPY_WINDOW_SIZE]
    /\ tp = ndm_tcp_init_tp(10)
    /\ last = NoCall
    /\ nacks = 0
    /\ steps = 0

RecomputeEntropy ==
    /\ tier = "canonical"
    /\ steps = 0
    /\ ca' = BatchUpdate(ca)
    /\ last' = [NoCall EXCEPT !.op = "entropy", !.ret = calculate_entropy(ca)]
    /\ steps' = 1
    /\ UNCHANGED <<tier, tp, nacks>>

NextEntropy == RecomputeEntropy

SpecEntropy == InitEntropy /\ [][NextEntropy]_vars

----------------------------------------------------------------------------
(* Specification SpecOpt: the optimized tier, every handler with every     *)
(* input, in any order, up to MaxOptSteps calls after construction.  The   *)
(* RTTs are 0, 1 and 2 ms; an ack covers one packet or a whole batch.      *)

MaxOptSteps == 3
AckedSet_opt == {0, 1, BATCH_PACKETS_opt}
SrttSet_opt == {0, 8000, 16000}

Budget_opt == steps < MaxOptSteps /\ steps' = steps + 1

NextOpt ==
    \/ \E a \in AckedSet_opt, s \in SrttSet_opt, l \in BOOLEAN :
          Budget_opt /\ ndm_tcp_cong_avoid_opt(a, s, l)
    \/ Budget_opt /\ ndm_tcp_ssthresh_opt
    \/ Budget_opt /\ ndm_tcp_undo_cwnd_opt
    \/ \E ev \in EventSet : Budget_opt /\ ndm_tcp_cwnd_event_opt(ev)
    \/ \E st \in StateSet : Budget_opt /\ ndm_tcp_set_state_opt(st)
    \/ \E v \in BOOLEAN : Budget_opt /\ ndm_tcp_get_info_opt(v)
    \/ \E w \in HostCwndSet : Budget_opt /\ HostShrinkCwnd(w)

SpecOpt == InitOpt /\ [][NextOpt]_vars

----------------------------------------------------------------------------
(* Specification SpecUndo: both tiers; reduce requests, host-side          *)
(* shrinking, undo requests and batch-sized acks in any order, up to       *)
(* MaxUndoSteps calls after construction.                                  *)

MaxUndoSteps == 4

InitUndo == InitCanon \/ InitOpt

Budget_undo == steps < MaxUndoSteps /\ steps' = steps + 1

NextUndo ==
    \/ \E s \in SteadySrttSet :
          Budget_undo /\ ndm_tcp_cong_avoid(BATCH_PACKETS, s, TRUE)
    \/ Budget_undo /\ ndm_tcp_ssthresh
    \/ Budget_undo /\ ndm_tcp_undo_cwnd
    \/ \E s \in SteadySrttSet :
          Budget_undo /\ ndm_tcp_cong_avoid_opt(BATCH_PACKETS_opt, s, TRUE)
    \/ Budget_undo /\ ndm_tcp_ssthresh_opt
    \/ Budget_undo /\ ndm_tcp_undo_cwnd_opt
    \/ \E w \in HostCwndSet : Budget_undo /\ HostShrinkCwnd(w)

SpecUndo == InitUndo /\ [][NextUndo]_vars

----------------------------------------------------------------------------
(* Specification SpecGrow: a connection in congestion avoidance from the   *)
(* start (window 10, threshold 5) or in slow start (window 100, no         *)
(* threshold).  One-packet acks fill the first batch, the first MixedAcks  *)
(* of them with an RTT of 10 ms or 50 ms and the others with 50 ms; the    *)
(* ack that completes the batch covers one packet or 1000 packets; a loss  *)
(* episode of up to MaxGrowEpisode calls (loss event, loss-state entry,    *)
(* reduce, host-side shrinking, undo) follows that batch, and further acks *)
(* at 50 ms,                                                               *)
(* MaxGrowAcks acks in all.  Only the first ack may find the connection    *)
(* not cwnd-limited.                                                       *)

MaxGrowAcks == 9
MaxGrowEpisode == 2
MixedAcks == 3
GrowCwndSet == {2, 40}

InitGrow == InitAt(10, 5) \/ InitWide

GrowAckedSet == IF nacks < BATCH_PACKETS - 1 THEN {1} ELSE {1, 1000}
GrowSrttSet == IF nacks < MixedAcks THEN {80000, 400000} ELSE {400000}
GrowLimitedSet == IF nacks = 0 THEN BOOLEAN ELSE {TRUE}

GrowAcks ==
    /\ nacks < MaxGrowAcks
    /\ \E a \in GrowAckedSet, s \in GrowSrttSet, l \in GrowLimitedSet :
          ndm_tcp_cong_avoid(a, s, l)
    /\ UNCHANGED steps

GrowEpisode ==
    /\ nacks = BATCH_PACKETS
    /\ steps < MaxGrowEpisode
    /\ steps' = steps + 1

NextGrow ==
    \/ GrowAcks
    \/ GrowEpisode /\ ndm_tcp_ssthresh
    \/ GrowEpisode /\ ndm_tcp_undo_cwnd
    \/ GrowEpisode /\ ndm_tcp_cwnd_event("CA_EVENT_LOSS")
    \/ GrowEpisode /\ ndm_tcp_set_state("TCP_CA_Loss")
    \/ \E w \in GrowCwndSet : GrowEpisode /\ HostShrinkCwnd(w)

SpecGrow == InitGrow /\ [][NextGrow]_vars

----------------------------------------------------------------------------
(* Specification SpecTiers: the three tiers side by side.  Acks of zero    *)
(* packets, one packet or a whole batch, reduce requests and loss events   *)
(* in any order, and for the ultra tier its other handlers as well, up to  *)
(* MaxTierSteps calls after construction.                                  *)

MaxTierSteps == 3
AckedSet_tiers == {0, 1, BATCH_PACKETS_opt}
SrttSet_tiers == {8000, 16000}

InitTiers == InitCanon \/ InitOpt \/ InitUltra

Budget_tiers == steps < MaxTierSteps /\ steps' = steps + 1

NextTiers ==
    \/ \E a \in AckedSet_tiers, s \in SrttSet_tiers :
          Budget_tiers /\ ndm_tcp_cong_avoid(a, s, TRUE)
    \/ Budget_tiers /\ ndm_tcp_ssthresh
    \/ Budget_tiers /\ ndm_tcp_cwnd_event("CA_EVENT_LOSS")
    \/ \E a \in AckedSet_tiers, s \in SrttSet_tiers :
          Budget_tiers /\ ndm_tcp_cong_avoid_opt(a, s, TRUE)
    \/ Budget_tiers /\ ndm_tcp_ssthresh_opt
    \/ Budget_tiers /\ ndm_tcp_cwnd_event_opt("CA_EVENT_LOSS")
    \/ \E a \in AckedSet_tiers, s \in SrttSet_tiers, l \in BOOLEAN :
          Budget_tiers /\ ndm_tcp_cong_avoid_ultra(a, s, l)
    \/ Budget_tiers /\ ndm_tcp_ssthresh_ultra
    \/ Budget_tiers /\ ndm_tcp_undo_cwnd_ultra
    \/ \E ev \in EventSet : Budget_tiers /\ ndm_tcp_cwnd_event_ultra(ev)
    \/ \E st \in StateSet : Budget_tiers /\ ndm_tcp_set_state_ultra(st)
    \/ \E v \in BOOLEAN : Budget_tiers /\ ndm_tcp_get_info_ultra(v)
    \/ \E w \in HostCwndSet : Budget_tiers /\ HostShrinkCwnd(w)

SpecTiers == InitTiers /\ [][NextTiers]_vars

----------------------------------------------------------------------------
(* Specification SpecHist: the histogram estimators of the canonical and   *)
(* the optimized tier as functions of the history.  The canonical          *)
(* histories are those of SpecEntropy; the optimized ones hold up to 8     *)
(* samples drawn the same way, 0 ms included.  The actions are the         *)
(* periodic recomputations of the two cong_avoid handlers.                 *)

SampleSet_opt == {0, 1, 2, 50, 65535}
CountSet_opt == {0, 1, 2, 7, 8}

DrawnHistory_opt(free, rest, n) ==
    [i \in 0..(ENTROPY_WINDOW_SIZE_opt - 1) |->
        IF i >= n THEN 0 ELSE IF i < MaxFree THEN free[i] ELSE rest]

InitEntropy_opt ==
    /\ tier = "optimized"
    /\ \E n \in CountSet_opt, rest \in SampleSet_opt,
          free \in [0..(MaxFree - 1) -> SampleSet_opt] :
          ca = [ndm_tcp_init_ca_opt(10, TCP_INFINITE_SSTHRESH) EXCEPT
                   !.rtt_history = DrawnHistory_opt(free, rest, n),
                   !.history_count = n,
                   !.history_index = n % ENTROPY_WINDOW_SIZE_opt]
    /\ tp = ndm_tcp_init_tp(10)
    /\ last = NoCall
    /\ nacks = 0
    /\ steps = 0

RecomputeEntropy_opt ==
    /\ tier = "optimized"
    /\ steps = 0
    /\ ca' = BatchUpdate_opt(ca)
    /\ last' = [NoCall EXCEPT !.op = "entropy", !.ret = calculate_entropy_fast(ca)]
    /\ steps' = 1
    /\ UNCHANGED <<tier, tp, nacks>>

InitHist == InitEntropy \/ InitEntropy_opt

NextHist ==
    \/ RecomputeEntropy
    \/ RecomputeEntropy_opt

SpecHist == InitHist /\ [][NextHist]_vars

----------------------------------------------------------------------------
(* Specification SpecEvents: the canonical tier under the host's           *)
(* notifications.  Up to MaxEventAcks batch-sized acks, and reduce         *)
(* requests, events of every kind and state changes in any order, up to    *)
(* MaxEventSteps notifications in all.                                     *)

MaxEventSteps == 6
MaxEventAcks == 1

Budget_events == steps < MaxEventSteps /\ steps' = steps + 1

NextEvents ==
    \/ \E s \in SteadySrttSet :
          /\ nacks < MaxEventAcks
          /\ ndm_tcp_cong_avoid(BATCH_PACKETS, s, TRUE)
          /\ UNCHANGED steps
    \/ Budget_events /\ ndm_tcp_ssthresh
    \/ \E ev \in EventSet : Budget_events /\ ndm_tcp_cwnd_event(ev)
    \/ \E st \in StateSet : Budget_events /\ ndm_tcp_set_state(st)

SpecEvents == InitCanon /\ [][NextEvents]_vars

----------------------------------------------------------------------------
(* Properties of the canonical tier                                        *)

(* C1: in every state reachable by acks, reduce requests, loss events,     *)
(* idle restarts and recovery-state entries, in any number and order,      *)
(* plasticity is at least 100 and at most 1000.  Stated for SpecPlast,     *)
(* where boosts repeat without bound and decays run to the floor.          *)
C1_PlasticityBounded == ca.plasticity >= 100 /\ ca.plasticity <= 1000

(* After a run of decays that reached the floor on the way, a recovery     *)
(* entry finds plasticity within 150 of the ceiling and leaves it at 1000. *)
C1_BoostClamped ==
    /\ nacks >= MaxRun
    /\ last.op = "set_state"
    /\ last.plast0 + BOOST_LOSS_STATE > 1000
    /\ ca.plasticity = 1000

C3_HighEntropyKeepsMore ==
    (/\ last.op = "ssthresh"
     /\ ca.has_data
     /\ ca.shannon_entropy > ENTROPY_THRESHOLD
     /\ last.cwnd0 >= 6)
    => /\ last.ret = (2 * last.cwnd0) \div 3
       /\ last.ret > SsthreshValue(last.cwnd0, 2)


(* C4: in both tiers an undo request sets and returns                      *)
(* max(current window, prior_cwnd); prior_cwnd is written by reduce        *)
(* requests only, which store the window they found.  Hence undo after     *)
(* reduce(w) and any shrinking returns at least w, and never less than the *)
(* current window.                                                         *)
C4_UndoRestores ==
    [][/\ last'.op = "undo_cwnd" =>
             /\ tp'.snd_cwnd = Max(tp.snd_cwnd, ca.prior_cwnd)
             /\ last'.ret = tp'.snd_cwnd
             /\ last'.ret >= tp.snd_cwnd
             /\ last'.ret >= ca.prior_cwnd
       /\ last'.op = "ssthresh" => ca'.prior_cwnd = tp.snd_cwnd
       /\ last'.op # "ssthresh" => ca'.prior_cwnd = ca.prior_cwnd]_vars

(* Optimized tier: reduce at window 100, the host shrinks the window to 2, *)
(* undo returns 100.                                                       *)
C4_UndoAfterShrink ==
    /\ tier = "optimized"
    /\ last.op = "undo_cwnd"
    /\ last.cwnd0 = 2
    /\ ca.prior_cwnd = 100
    /\ ca.ssthresh = 50
    /\ last.ret = 100
    /\ tp.snd_cwnd = 100

(* C5: for every content of the RTT history (any count 0..16, any sample   *)
(* values) calculate_entropy returns a value in [0, 1000], and so does the *)
(* stored entropy score.                                                   *)
C5_EntropyBounded ==
    /\ ca.shannon_entropy >= 0 /\ ca.shannon_entropy <= 1000
    /\ last.op = "entropy" => last.ret >= 0 /\ last.ret <= 1000

(* A full history whose raw sum exceeds 4000 is capped at 1000. *)
C5_EntropyCapped ==
    /\ last.op = "entropy"
    /\ ca.history_count = ENTROPY_WINDOW_SIZE
    /\ EntropyMaxVal(ca) > EntropyMinVal(ca)
    /\ EntropyRaw(ca) \div 4 > 1000
    /\ last.ret = 1000

(* C6: in the optimized tier the entropy score, the sum of ENTROPY_LUT     *)
(* entries over the occupied bins of a history of 1..8 samples, is within  *)
(* [0, 1024].                                                              *)
C6_FastEntropyBounded ==
    tier = "optimized" => ca.shannon_entropy >= 0 /\ ca.shannon_entropy <= 1024

(* C7: every forward pass yields a growth signal in [0, 1000]. *)
C7_SignalBounded ==
    (last.op = "cong_avoid" /\ last.acked > 0)
    => last.cwnd_delta >= 0 /\ last.cwnd_delta <= 1000

(* A pre-activation inside the linear range of the sigmoid whose linear   *)
(* image exceeds 1000: the signal is clamped to 1000.                      *)
C7_SignalClamped ==
    /\ last.op = "cong_avoid"
    /\ last.acked > 0
    /\ ca.shannon_entropy <= ENTROPY_THRESHOLD
    /\ last.output <= 6000
    /\ 500 + TDiv(last.output, 8) > 1000
    /\ last.cwnd_delta = 1000

(* C8: an ack reaches the batch boundary exactly when the packet counter   *)
(* plus the packets it acknowledges is at least 8.  At the boundary the    *)
(* entropy score is recomputed from the history, the counter returns to 0, *)
(* has_data is set, congestion_detected becomes (score < 700) and          *)
(* loss_detected is cleared; on every other ack the counter accumulates    *)
(* and those fields stay as they were.                                     *)
C8_BatchBoundary ==
    [][(last'.op = "cong_avoid" /\ last'.acked > 0) =>
          LET due == U16(ca.packets_acked + last'.acked) >= 8
          IN /\ last'.batch = due
             /\ due => /\ ca'.shannon_entropy = calculate_entropy(ca')
                       /\ ca'.packets_acked = 0
                       /\ ca'.has_data
                       /\ ca'.congestion_detected = (ca'.shannon_entropy < 700)
                       /\ ~ca'.loss_detected
             /\ ~due => /\ ca'.packets_acked = ca.packets_acked + last'.acked
                        /\ ca'.shannon_entropy = ca.shannon_entropy
                        /\ ca'.has_data = ca.has_data
                        /\ ca'.congestion_detected = ca.congestion_detected
                        /\ ca'.loss_detected = ca.loss_detected]_vars

(* A reduce request after the first batch set loss_detected; the next ack  *)
(* covers a whole batch and clears it.                                     *)
C8_BatchClearsLoss ==
    /\ last.op = "cong_avoid"
    /\ last.batch
    /\ nacks = BATCH_PACKETS + 1
    /\ ca.ssthresh # TCP_INFINITE_SSTHRESH
    /\ ca.has_data
    /\ ca.packets_acked = 0
    /\ ~ca.loss_detected

(* C9: while the history holds fewer than 8 samples the entropy score is 0 *)
(* and has_data is false, whatever the per-ack packet counts are.          *)
C9_HasDataNeedsHistory ==
    ca.history_count < 8 => (ca.shannon_entropy = 0 /\ ~ca.has_data)

C11_SlowStartCredit ==
    [][(last'.op = "cong_avoid" /\ last'.acked > 0
        /\ tp.snd_cwnd < ca.ssthresh) =>
          LET credit == IF ca'.congestion_detected
                        THEN last'.acked \div 2 ELSE last'.acked
          IN /\ last'.branch = "slow_start"
             /\ tp'.snd_cwnd = Min(tp.snd_cwnd + credit, tp.snd_ssthresh)
             /\ (last'.acked = 1000 /\ tp.snd_cwnd + credit <= tp.snd_ssthresh)
                   => tp'.snd_cwnd - tp.snd_cwnd =
                         (IF ca'.congestion_detected THEN 500 ELSE 1000)]_vars

(* The eighth ack covers 1000 packets after seven equal RTT samples: the   *)
(* boundary update sets congestion_detected and the window grows by 500.   *)
C11_HalvedCredit ==
    /\ last.op = "cong_avoid"
    /\ last.branch = "slow_start"
    /\ last.acked = 1000
    /\ last.batch
    /\ ca.congestion_detected
    /\ tp.snd_ssthresh = TCP_INFINITE_SSTHRESH
    /\ tp.snd_cwnd = last.cwnd0 + 500

(* C12: in the canonical, optimized and ultra tiers an ack that            *)
(* acknowledges nothing leaves every field of the connection state and     *)
(* the host's window fields as they were.                                  *)
C12_ZeroAckNoOp ==
    [][(last'.op = "cong_avoid" /\ last'.acked = 0) =>
          (ca' = ca /\ tp' = tp /\ nacks' = nacks)]_vars

(* Ultra tier: a zero ack after a batch, a loss event and a reduce         *)
(* request, with a history, flags and a hidden state that differ from the  *)
(* initial ones.                                                           *)
C12_ZeroAckOnLiveState ==
    /\ tier = "ultra"
    /\ last.op = "cong_avoid"
    /\ last.acked = 0
    /\ nacks > 0
    /\ ca.history_count > 0
    /\ check_flag(ca, FLAG_HAS_DATA)
    /\ check_flag(ca, FLAG_LOSS)
    /\ ca.plasticity # BASE_PLASTICITY_ultra

(* C13: in the canonical and the optimized tier, a history whose valid     *)
(* samples are all equal has entropy score 0, whatever their number and    *)
(* value.                                                                  *)
C13_EqualSamplesScoreZero ==
    LET cap == IF tier = "canonical"
               THEN ENTROPY_WINDOW_SIZE ELSE ENTROPY_WINDOW_SIZE_opt
        n == Min(ca.history_count, cap)
        equal == \A i, j \in 0..(n - 1) : ca.rtt_history[i] = ca.rtt_history[j]
    IN (last.op = "entropy" /\ equal)
          => (last.ret = 0 /\ ca.shannon_entropy = 0)

(* Sixteen samples of 50 ms in the canonical history: enough for the       *)
(* estimator to run, and the score is 0.                                   *)
C13_FullEqualHistory ==
    /\ tier = "canonical"
    /\ last.op = "entropy"
    /\ ca.history_count = ENTROPY_WINDOW_SIZE
    /\ \A i \in 0..(ENTROPY_WINDOW_SIZE - 1) : ca.rtt_history[i] = 50
    /\ last.ret = 0

(* C14: canonical tier, two histories with the same count whose valid      *)
(* samples are permutations of each other have the same entropy score.     *)
(* Every history is compared with its sorted arrangement, which all its    *)
(* permutations share, and with its reversal.                              *)
C14_OrderIndependent ==
    tier = "canonical" =>
       LET n == EntropyCount(ca)
           h == ca.rtt_history
           V == {h[k] : k \in 0..(n - 1)}
           below(v) == Cardinality({k \in 0..(n - 1) : h[k] < v})
           upto(v) == Cardinality({k \in 0..(n - 1) : h[k] <= v})
           sorted == [i \in DOMAIN h |->
                        IF i >= n THEN h[i]
                        ELSE CHOOSE v \in V : below(v) <= i /\ i < upto(v)]
           reversed == [i \in DOMAIN h |-> IF i >= n THEN h[i] ELSE h[n - 1 - i]]
           e == calculate_entropy(ca)
       IN /\ calculate_entropy([ca EXCEPT !.rtt_history = sorted]) = e
          /\ calculate_entropy([ca EXCEPT !.rtt_history = reversed]) = e
          /\ last.op = "entropy" => last.ret = e

(* A full history that is not in ascending order and whose maximum sits in *)
(* the oldest slot, scored 1000.                                           *)
C14_UnsortedHistory ==
    /\ tier = "canonical"
    /\ last.op = "entropy"
    /\ ca.history_count = ENTROPY_WINDOW_SIZE
    /\ ca.rtt_history[0] = EntropyMaxVal(ca)
    /\ ca.rtt_history[1] < ca.rtt_history[0]
    /\ ca.rtt_history[2] > ca.rtt_history[1]
    /\ last.ret = 1000

(* C15: canonical tier, eight one-packet acks after init.  The eighth ack  *)
(* reaches the batch boundary; if all eight samples are 10 ms the entropy  *)
(* score is 0 and congestion_detected is set, if they alternate between    *)
(* 10 ms and 50 ms the score is above 700 and congestion_detected is       *)
(* clear.                                                                  *)
C15_BatchScenarios ==
    (nacks = 8 /\ last.op = "cong_avoid") =>
       LET h == ca.rtt_history
           steady == \A i \in 0..7 : h[i] = 10
           alternating == \A i \in 0..7 : h[i] = (IF i % 2 = 0 THEN 10 ELSE 50)
       IN /\ last.batch
          /\ ca.has_data
          /\ ca.history_count = 8
          /\ steady => (ca.shannon_entropy = 0 /\ ca.congestion_detected)
          /\ alternating => (/\ ca.shannon_entropy > ENTROPY_THRESHOLD
                             /\ ~ca.congestion_detected)

(* The eight samples 10, 50, 10, 50, ... have been recorded and the batch  *)
(* update has scored them 1000.                                            *)
C15_AlternatingBatch ==
    /\ nacks = 8
    /\ last.op = "cong_avoid"
    /\ last.batch
    /\ \A i \in 0..7 : ca.rtt_history[i] = (IF i % 2 = 0 THEN 10 ELSE 50)
    /\ ca.shannon_entropy = 1000
    /\ ~ca.congestion_detected

(* C16: canonical tier.  min_rtt_us is the sentinel until the first ack    *)
(* that acknowledges something; each such ack replaces it by the smaller   *)
(* of itself and max(srtt_us >> 3, 1), and no other operation writes it.   *)
(* Hence it is the minimum of max(RTT, 1) over the acks processed, it      *)
(* never increases and it is never 0.                                      *)
C16_MinRttIsMinimum ==
    /\ ca.min_rtt_us = U32_MAX
    /\ [][/\ (last'.op = "cong_avoid" /\ last'.acked > 0)
                => ca'.min_rtt_us = Min(ca.min_rtt_us, Max(last'.srtt_us \div 8, 1))
          /\ ~(last'.op = "cong_avoid" /\ last'.acked > 0)
                => ca'.min_rtt_us = ca.min_rtt_us
          /\ ca'.min_rtt_us <= ca.min_rtt_us
          /\ ca'.min_rtt_us >= 1
          /\ (nacks' = 0) = (ca'.min_rtt_us = U32_MAX)]_vars

(* A 10 ms ack followed by an ack whose smoothed RTT is zero: the zero is  *)
(* recorded as one microsecond and becomes the minimum.                    *)
C16_ZeroRttRecordedAsOne ==
    /\ last.op = "cong_avoid"
    /\ last.acked > 0
    /\ last.srtt_us = 0
    /\ nacks = 2
    /\ ca.rtt_history[0] = 10
    /\ ca.min_rtt_us = 1

(* C17: canonical tier.  No call of the controller lowers the window: an   *)
(* ack leaves it at or above its value before the call in each of the four *)
(* growth branches, and so do undo, reduce, the events and the state       *)
(* changes.  With a host that itself never sets a window below 2, the      *)
(* window is at least 2 in every reachable state.                          *)
C17_WindowNeverLowered ==
    /\ tp.snd_cwnd >= 2
    /\ [][/\ last'.op # "host_cwnd" => tp'.snd_cwnd >= tp.snd_cwnd
          /\ (last'.op = "cong_avoid" /\ last'.acked > 0)
                => /\ last'.branch \in {"slow_start", "conservative",
                                        "aggressive", "reno"}
                   /\ tp'.snd_cwnd >= last'.cwnd0
          /\ last'.op = "undo_cwnd" => tp'.snd_cwnd >= last'.cwnd0
          /\ tp'.snd_cwnd >= 2]_vars

(* Slow start against a finite threshold: after a reduce request and a     *)
(* host-side drop to 2 an ack of 1000 packets raises the window to the     *)
(* host's threshold and no further.                                        *)
C17_SlowStartStopsAtThreshold ==
    /\ last.op = "cong_avoid"
    /\ last.branch = "slow_start"
    /\ last.acked = 1000
    /\ last.cwnd0 = 2
    /\ tp.snd_ssthresh < TCP_INFINITE_SSTHRESH
    /\ tp.snd_cwnd = tp.snd_ssthresh
    /\ tp.snd_cwnd > last.cwnd0

(* C18: canonical tier.  An idle-restart event sets plasticity to 300 and  *)
(* leaves every other field of the connection state, and the host's        *)
(* window fields, as they were.                                            *)
C18_IdleRestartResetsPlasticity ==
    [][(last'.op = "cwnd_event" /\ last'.arg = "CA_EVENT_CWND_RESTART") =>
          /\ ca'.plasticity = 300
          /\ ca' = [ca EXCEPT !.plasticity = 300]
          /\ tp' = tp]_vars

(* An idle restart after an ack, a loss event and boosts that took         *)
(* plasticity to the ceiling: plasticity is back at 300, the flags, the    *)
(* history and the hidden state are still there.                           *)
C18_RestartFromCeiling ==
    /\ last.op = "cwnd_event"
    /\ last.arg = "CA_EVENT_CWND_RESTART"
    /\ last.plast0 = MAX_PLASTICITY
    /\ ca.plasticity = BASE_PLASTICITY
    /\ ca.has_data
    /\ ca.loss_detected
    /\ ca.congestion_detected
    /\ ca.history_count = 1
    /\ \E i \in 0..(HIDDEN_SIZE - 1) : ca.hidden_state[i] # 0

(* C19: canonical tier.  A generic loss event sets congestion_detected and *)
(* loss_detected and changes nothing else; an event of any kind other than *)
(* loss and idle restart changes nothing at all.                           *)
C19_LossEventSetsFlagsOnly ==
    [][last'.op = "cwnd_event" =>
          /\ last'.arg = "CA_EVENT_LOSS" =>
                /\ ca'.congestion_detected /\ ca'.loss_detected
                /\ ca' = [ca EXCEPT !.congestion_detected = TRUE,
                                    !.loss_detected = TRUE]
          /\ last'.arg \notin {"CA_EVENT_LOSS", "CA_EVENT_CWND_RESTART"} => ca' = ca
          /\ tp' = tp]_vars

(* A loss event right after a batch-sized ack, whose boundary update had   *)
(* cleared loss_detected: both flags are set, and plasticity is the        *)
(* decayed value the ack left.                                             *)
C19_LossEventAfterAck ==
    /\ last.op = "cwnd_event"
    /\ last.arg = "CA_EVENT_LOSS"
    /\ nacks = 1
    /\ ca.has_data
    /\ ca.congestion_detected
    /\ ca.loss_detected
    /\ ca.plasticity = last.plast0
    /\ ca.plasticity < BASE_PLASTICITY

(* C20: canonical tier.  Entering TCP_CA_Loss sets congestion_detected and *)
(* loss_detected and raises plasticity by 150, clamped at 1000, leaving    *)
(* everything else; a reduce request raises it by 100, clamped at 1000,    *)
(* which is the smaller increment; a change to any other state leaves the  *)
(* connection state as it was.                                             *)
C20_LossStateBoost ==
    [][/\ last'.op = "set_state" =>
             /\ last'.arg = "TCP_CA_Loss" =>
                   /\ ca'.plasticity = Min(1000, ca.plasticity + 150)
                   /\ ca' = [ca EXCEPT !.congestion_detected = TRUE,
                                       !.loss_detected = TRUE,
                                       !.plasticity = Min(1000, ca.plasticity + 150)]
                   /\ ca'.plasticity >= Min(1000, ca.plasticity + 100)
             /\ last'.arg # "TCP_CA_Loss" => ca' = ca
             /\ tp' = tp
       /\ last'.op = "ssthresh" =>
             ca'.plasticity = Min(1000, ca.plasticity + 100)]_vars

(* A recovery entry that finds plasticity at 900, where the boost of 150   *)
(* is cut to 100 by the ceiling.                                           *)
C20_BoostClampedAtCeiling ==
    /\ last.op = "set_state"
    /\ last.arg = "TCP_CA_Loss"
    /\ last.plast0 = 900
    /\ ca.plasticity = 1000
    /\ ca.congestion_detected
    /\ ca.loss_detected


----------------------------------------------------------------------------
(* Specification SpecDecay: a run of acks with no event inside it.  The    *)
(* connection starts in slow start (window 100, no threshold); one reduce  *)
(* request may come before the first ack and puts it in congestion         *)
(* avoidance.  The first ack has an RTT of 10 ms or 50 ms, the others      *)
(* 10 ms, MaxRun one-packet acks in all, so that the run passes through    *)
(* the Reno, the aggressive and the conservative rule and reaches the      *)
(* plasticity floor; acks of no packet come in between.                    *)

DecaySrttSet == IF nacks = 0 THEN {80000, 400000} ELSE {80000}
DecayAckedSet == {0, 1}

NextDecay ==
    \/ \E a \in DecayAckedSet, s \in DecaySrttSet :
          nacks < MaxRun /\ ndm_tcp_cong_avoid(a, s, TRUE) /\ UNCHANGED steps
    \/ nacks = 0 /\ steps = 0 /\ steps' = 1 /\ ndm_tcp_ssthresh

SpecDecay == InitWide /\ [][NextDecay]_vars

----------------------------------------------------------------------------
(* Properties, continued                                                   *)

(* C21: every ack of at least one packet, under whichever of the four      *)
(* growth rules, leaves plasticity at max(floor(plasticity * 995 / 1000),  *)
(* 100); over a run of acks with no reduce request, recovery entry or idle *)
(* restart in it plasticity never rises and never goes below 100.          *)
C21_DecayEveryAck ==
    /\ ca.plasticity >= MIN_PLASTICITY
    /\ [][(last'.op = "cong_avoid" /\ last'.acked > 0) =>
            /\ last'.branch \in {"slow_start", "conservative", "aggressive", "reno"}
            /\ ca'.plasticity = Max((ca.plasticity * 995) \div 1000, 100)
            /\ ca'.plasticity <= ca.plasticity
            /\ ca'.plasticity >= 100]_vars

(* An ack under the conservative rule that finds plasticity at the floor:  *)
(* 100 * 995 / 1000 = 99 is raised back to 100.                             *)
C21_DecayHeldAtFloor ==
    /\ last.op = "cong_avoid"
    /\ last.branch = "conservative"
    /\ last.plast0 = MIN_PLASTICITY
    /\ ca.plasticity = MIN_PLASTICITY

(* An ack under the aggressive rule decays plasticity as well.             *)
C21_DecayWhileAggressive ==
    /\ last.op = "cong_avoid"
    /\ last.branch = "aggressive"
    /\ ca.plasticity < last.plast0


----------------------------------------------------------------------------
(* Specification SpecSkip: the compute elision of the optimized tier.  Up  *)
(* to MaxBoosts notifications: reduce requests and loss-state entries      *)
(* before the first ack, which raise plasticity above the elision level,   *)
(* and idle restarts at any time, which put it back to its base.  Then up  *)
(* to MaxSkipAcks acks:                                                    *)
(* the first MixedSkipAcks with an RTT of 1 ms or 2 ms, the others 1 ms,   *)
(* each of those of one packet or of a whole batch, the others of one.     *)

MaxBoosts == 6
MaxSkipAcks == 11
MixedSkipAcks == 2

SkipSrttSet == IF nacks < MixedSkipAcks THEN {8000, 16000} ELSE {8000}
SkipAckedSet == IF nacks < MixedSkipAcks THEN {1, BATCH_PACKETS_opt} ELSE {1}

Budget_skip == steps < MaxBoosts /\ steps' = steps + 1

NextSkip ==
    \/ \E a \in SkipAckedSet, s \in SkipSrttSet :
          /\ nacks < MaxSkipAcks
          /\ ndm_tcp_cong_avoid_opt(a, s, TRUE)
          /\ UNCHANGED steps
    \/ nacks = 0 /\ Budget_skip /\ ndm_tcp_ssthresh_opt
    \/ nacks = 0 /\ Budget_skip /\ ndm_tcp_set_state_opt("TCP_CA_Loss")
    \/ Budget_skip /\ ndm_tcp_cwnd_event_opt("CA_EVENT_CWND_RESTART")

SpecSkip == InitAt_opt(10, TCP_INFINITE_SSTHRESH) /\ [][NextSkip]_vars

(* C22: optimized tier.  nn_skip_counter is 0 after construction and stays *)
(* within 0..8.  An ack of at least one packet reuses the cached growth    *)
(* signal only if the entropy score it tests is below 500, plasticity is   *)
(* above 800 and the counter is below 8; it then adds one to the counter   *)
(* and leaves the cache and the hidden state alone.  Any other such ack    *)
(* invokes the network, stores its signal in the cache and puts the        *)
(* counter back to 0; no other handler touches the counter.  The counter   *)
(* thus counts the acks served from the cache in a row, at most 8.         *)
C22_SkipCounterBounded ==
    /\ ca.nn_skip_counter = 0
    /\ [][/\ ca'.nn_skip_counter \in 0..8
          /\ IF last'.op = "cong_avoid" /\ last'.acked > 0
             THEN IF last'.arg = "skipped"
                  THEN /\ ca'.shannon_entropy < 500
                       /\ ca.plasticity > 800
                       /\ ca.nn_skip_counter < 8
                       /\ ca'.nn_skip_counter = ca.nn_skip_counter + 1
                       /\ last'.cwnd_delta = ca.cached_cwnd_delta
                       /\ ca'.cached_cwnd_delta = ca.cached_cwnd_delta
                       /\ ca'.hidden_state = ca.hidden_state
                  ELSE /\ last'.arg = "computed"
                       /\ ~(/\ ca'.shannon_entropy < 500
                            /\ ca.plasticity > 800
                            /\ ca.nn_skip_counter < 8)
                       /\ ca'.nn_skip_counter = 0
                       /\ ca'.cached_cwnd_delta = last'.cwnd_delta
             ELSE ca'.nn_skip_counter = ca.nn_skip_counter]_vars

(* The network is invoked although the entropy score is below 500 and      *)
(* plasticity above 800: the eight acks before this one were served from   *)
(* the cache and the counter had reached 8.                                *)
C22_InvokedAfterEightSkips ==
    /\ tier = "optimized"
    /\ last.op = "cong_avoid"
    /\ last.arg = "computed"
    /\ ca.shannon_entropy < 500
    /\ last.plast0 > 800
    /\ ca.nn_skip_counter = 0


----------------------------------------------------------------------------
(* Specification SpecSpread: the ultra tier fills its history.  Acks of    *)
(* two packets each, MaxSpreadAcks in all, so that the eighth completes a  *)
(* batch of 16; the n-th ack (counted from 0) has a smoothed RTT of 0 or   *)
(* of n history units (32 us each, srtt_us = 8 * 32 * n), so the eight     *)
(* samples are spread over one to eight bins.                              *)

MaxSpreadAcks == 8

SpreadSrttSet == {0, 8 * 32 * nacks}

NextSpread ==
    \E s \in SpreadSrttSet :
       /\ nacks < MaxSpreadAcks
       /\ ndm_tcp_cong_avoid_ultra(2, s, TRUE)
       /\ UNCHANGED steps

SpecSpread == InitAt_ultra(10, TCP_INFINITE_SSTHRESH) /\ [][NextSpread]_vars

(* C23: ultra tier.  The score stored at a batch boundary is the sum of    *)
(* the ENTROPY_LUT contributions of the non-empty bins, held at 255 when   *)
(* the sum is larger.                                                       *)
C23_EntropySaturates ==
    (/\ tier = "ultra"
     /\ last.op = "cong_avoid"
     /\ last.batch
     /\ MaxVal_ultra(ca) > MinVal_ultra(ca))
       => ca.shannon_entropy = Min(LutSum_ultra(Histogram_ultra(ca)), 255)


(* C24: canonical tier.  A get_info call leaves every field of the         *)
(* connection state and the host's window fields as they were.  Asked for  *)
(* the Vegas schema it returns the size of tcpvegas_info and reports       *)
(* enabled = 1, history_count, min_rtt_us / 1000 and the entropy score;    *)
(* asked for anything else it returns 0 and reports nothing.               *)
C24_GetInfoReadOnly ==
    [][last'.op = "get_info" =>
          /\ ca' = ca
          /\ tp' = tp
          /\ IF last'.arg = "INET_DIAG_VEGASINFO"
             THEN /\ last'.ret = 16
                  /\ last'.info = <<1, ca.history_count,
                                    ca.min_rtt_us \div 1000,
                                    ca.shannon_entropy>>
             ELSE /\ last'.ret = 0
                  /\ last'.info = <<>>]_vars

(* A snapshot taken after two acks with an RTT of 10 ms: depth 2 and a     *)
(* minimum RTT of 10.                                                      *)
C24_SnapshotAfterAcks ==
    /\ tier = "canonical"
    /\ last.op = "get_info"
    /\ last.arg = "INET_DIAG_VEGASINFO"
    /\ ca.history_count = 2
    /\ ca.min_rtt_us = 10000
    /\ last.info = <<1, 2, 10, ca.shannon_entropy>>


----------------------------------------------------------------------------
(* Specification SpecPair: two connections of the canonical tier served by *)
(* the same module, their events interleaved in any order, MaxPairSteps    *)
(* calls in all.  `ca.together[k]` and `tp.together[k]` are the private    *)
(* area and the tcp_sock of connection k; `ca.alone[k]` and `tp.alone[k]`  *)
(* are the same connection on a host where it is the only one, fed the     *)
(* events of k alone.  `last` holds the connection of the latest call and  *)
(* what the call gave the host in each of the two worlds.                  *)

MaxPairSteps == 4

Conns == {1, 2}
PairInitCwnd == <<10, 100>>

PairEventSet ==
    [op : {"cong_avoid"}, acked : {BATCH_PACKETS}, srtt_us : {80000, 400000}]
    \cup [op : {"ssthresh", "undo_cwnd", "cwnd_event", "get_info"},
          acked : {0}, srtt_us : {0}]

(* A module that keeps the state of every socket in one static area. *)
inet_csk_ca_shared(areas, sk) == areas[1]

(* The private area of socket sk. *)
inet_csk_ca(areas, sk) == areas[sk]

(* The tcp_sock of socket sk. *)
tcp_sk(socks, sk) == socks[sk]

(* The handler that ndm_tcp_ops binds to the event, applied to the area c  *)
(* and the tcp_sock t: the new area, the new tcp_sock and the call record. *)
HandlerStep(c, t, ev) ==
    CASE ev.op = "cong_avoid" ->
            CongAvoidStep(c, t, ev.acked, ev.srtt_us, TRUE)
      [] ev.op = "ssthresh" ->
            LET c1 == SsthreshStep(c, t)
            IN [ca |-> c1,
                tp |-> [t EXCEPT !.snd_ssthresh = c1.ssthresh],
                call |-> [NoCall EXCEPT !.op = "ssthresh", !.ret = c1.ssthresh]]
      [] ev.op = "undo_cwnd" ->
            LET w == UndoWindow(t.snd_cwnd, c.prior_cwnd)
            IN [ca |-> [c EXCEPT !.in_slow_start = (w < c.ssthresh)],
                tp |-> [t EXCEPT !.snd_cwnd = w],
                call |-> [NoCall EXCEPT !.op = "undo_cwnd",
                                        !.ret = Max(w, c.prior_cwnd)]]
      [] ev.op = "cwnd_event" ->
            [ca |-> CwndEventStep(c, "CA_EVENT_LOSS"),
             tp |-> t,
             call |-> [NoCall EXCEPT !.op = "cwnd_event", !.arg = "CA_EVENT_LOSS"]]
      [] OTHER ->
            LET r == GetInfoStep(c, TRUE)
            IN [ca |-> c, tp |-> t,
                call |-> [NoCall EXCEPT !.op = "get_info", !.ret = r.size,
                                        !.info = r.info]]

InitPair ==
    /\ tier = "canonical"
    /\ \E areas \in {[k \in Conns |->
                        ndm_tcp_init_ca(PairInitCwnd[k], TCP_INFINITE_SSTHRESH)]},
          socks \in {[k \in Conns |-> ndm_tcp_init_tp(PairInitCwnd[k])]} :
          /\ ca = [together |-> areas, alone |-> areas]
          /\ tp = [together |-> socks, alone |-> socks]
    /\ last = [sk |-> 0, together |-> NoCall, alone |-> NoCall]
    /\ nacks = 0
    /\ steps = 0

PairCall(sk, ev) ==
    /\ steps < MaxPairSteps
    /\ steps' = steps + 1
    /\ \E rt \in {HandlerStep(inet_csk_ca(ca.together, sk),
                              tcp_sk(tp.together, sk), ev)},
          ra \in {HandlerStep(ca.alone[sk], tp.alone[sk], ev)} :
          /\ ca' = [together |-> [ca.together EXCEPT ![sk] = rt.ca],
                    alone |-> [ca.alone EXCEPT ![sk] = ra.ca]]
          /\ tp' = [together |-> [tp.together EXCEPT ![sk] = rt.tp],
                    alone |-> [tp.alone EXCEPT ![sk] = ra.tp]]
          /\ last' = [sk |-> sk, together |-> rt.call, alone |-> ra.call]
    /\ nacks' = IF ev.op = "cong_avoid" THEN nacks + 1 ELSE nacks
    /\ UNCHANGED tier

NextPair == \E sk \in Conns, ev \in PairEventSet : PairCall(sk, ev)

SpecPair == InitPair /\ [][NextPair]_vars

C26_UndoRecomputesSlowStart ==
    last.op = "undo_cwnd" =>
       IF tier = "canonical"
       THEN ca.in_slow_start = (tp.snd_cwnd < ca.ssthresh)
       ELSE check_flag(ca, FLAG_SLOW_START) = (tp.snd_cwnd < ca.ssthresh)


(* C27: canonical tier.  Every unit of hidden_state lies in -1000..1000,   *)
(* the output range of a saturating activation.                            *)
C27_HiddenStateInRange ==
    tier = "canonical" =>
       \A i \in 0..(HIDDEN_SIZE - 1) :
          ca.hidden_state[i] >= -1000 /\ ca.hidden_state[i] <= 1000


(* C28: canonical tier.  A loss event and an entry into the loss state set *)
(* congestion_detected and loss_detected.  Once both are set they stay set *)
(* through every call that is not an ack reaching the batch boundary       *)
(* (packets_acked + acked >= 8); the ack that reaches it clears            *)
(* loss_detected and sets congestion_detected to (entropy score < 700),    *)
(* the score being the one it has just computed.                           *)
C28_LossFlagsHeldUntilBatch ==
    [][/\ ((last'.op = "cwnd_event" /\ last'.arg = "CA_EVENT_LOSS")
           \/ (last'.op = "set_state" /\ last'.arg = "TCP_CA_Loss"))
             => (ca'.congestion_detected /\ ca'.loss_detected)
       /\ (ca.congestion_detected /\ ca.loss_detected) =>
             IF /\ last'.op = "cong_avoid"
                /\ last'.acked > 0
                /\ U16(ca.packets_acked + last'.acked) >= 8
             THEN /\ ~ca'.loss_detected
                  /\ ca'.shannon_entropy = calculate_entropy(ca')
                  /\ ca'.congestion_detected = (ca'.shannon_entropy < 700)
             ELSE ca'.congestion_detected /\ ca'.loss_detected]_vars

(* The ninth ack, of one packet, after a loss event or a loss-state entry  *)
(* that followed the first batch: the score of that batch is 1000, so      *)
(* congestion_detected was set by the notification and not by the          *)
(* recomputation, and both flags are still set after the ack.              *)
C28_FlagsHeldAcrossAck ==
    /\ tier = "canonical"
    /\ last.op = "cong_avoid"
    /\ last.acked = 1
    /\ ~last.batch
    /\ nacks = BATCH_PACKETS + 1
    /\ ca.packets_acked = 1
    /\ ca.has_data
    /\ ca.shannon_entropy >= ENTROPY_THRESHOLD
    /\ ca.congestion_detected
    /\ ca.loss_detected


(* C29: canonical tier.  An ack of at least one packet that leaves the     *)
(* packet counter below 8 stores its RTT sample in the history and moves   *)
(* the write index, and leaves the entropy score, has_data,                *)
(* congestion_detected and loss_detected as they were.                     *)
C29_ScoreStaleBetweenBatches ==
    [][(/\ last'.op = "cong_avoid"
        /\ last'.acked > 0
        /\ U16(ca.packets_acked + last'.acked) < 8) =>
          /\ ~last'.batch
          /\ ca'.shannon_entropy = ca.shannon_entropy
          /\ ca'.has_data = ca.has_data
          /\ ca'.congestion_detected = ca.congestion_detected
          /\ ca'.loss_detected = ca.loss_detected
          /\ ca'.rtt_history[ca.history_index] = RttMs(last'.rtt_us)
          /\ ca'.history_index # ca.history_index]_vars

(* The ninth ack brings a 50 ms sample into a history of eight 10 ms       *)
(* samples: the stored score is still the 0 of the first batch, while the  *)
(* history as it is now would score 1000.                                  *)
C29_StoredScoreOutdated ==
    /\ last.op = "cong_avoid"
    /\ ~last.batch
    /\ nacks = BATCH_PACKETS + 1
    /\ ca.has_data
    /\ ca.shannon_entropy = 0
    /\ calculate_entropy(ca) = 1000


(* C30: canonical tier.  With n the number of acks of at least one packet  *)
(* processed so far, history_index = n mod 16 < 16 and history_count =     *)
(* min(n, 16) <= 16 in every reachable state; each such ack stores its     *)
(* sample at the write index it finds, leaves the other slots alone and    *)
(* advances the index by one modulo 16.                                    *)
C30_RingBuffer ==
    /\ ca.history_index = 0 /\ ca.history_count = 0 /\ nacks = 0
    /\ [][/\ ca'.history_index < 16
          /\ ca'.history_count <= 16
          /\ ca'.history_index = nacks' % 16
          /\ ca'.history_count = Min(nacks', 16)
          /\ IF last'.op = "cong_avoid" /\ last'.acked > 0
             THEN /\ nacks' = nacks + 1
                  /\ ca'.history_index = (ca.history_index + 1) % 16
                  /\ ca'.rtt_history[ca.history_index] = RttMs(last'.rtt_us)
                  /\ \A i \in 0..15 :
                        i # ca.history_index =>
                           ca'.rtt_history[i] = ca.rtt_history[i]
             ELSE /\ nacks' = nacks
                  /\ ca'.rtt_history = ca.rtt_history]_vars

(* The seventeenth ack writes slot 0 again: the 50 ms sample of the first  *)
(* ack is gone, the index is 1 and the count stays 16.                     *)
C30_RingWrapped ==
    /\ tier = "canonical"
    /\ last.op = "cong_avoid"
    /\ last.acked = 1
    /\ nacks = 17
    /\ ca.history_index = 1
    /\ ca.history_count = 16
    /\ ca.min_rtt_us = 10000
    /\ \A i \in 0..15 : ca.rtt_history[i] = 10
    /\ ca.shannon_entropy = 1000


(* C31: optimized tier.  cached_cwnd_delta is 512 after construction.  An  *)
(* ack that elides the network grows the window with the cached signal     *)
(* and leaves the cache and hidden_state as they were; an ack that runs    *)
(* the network stores the fresh output, fast_sigmoid of the (entropy-      *)
(* gated) output sum, in the cache and grows the window with it; no other  *)
(* handler writes the cache.  The cache is thus the output of the most     *)
(* recent network invocation, or 512 when there was none.                  *)
C31_CacheHoldsLastOutput ==
    /\ ca.cached_cwnd_delta = 512
    /\ [][IF last'.op = "cong_avoid" /\ last'.acked > 0
          THEN /\ tp' = ApplyGrowth_opt(ca', tp, last'.branch, last'.acked,
                                        last'.cwnd_delta, last'.limited)
               /\ IF last'.arg = "skipped"
                  THEN /\ last'.cwnd_delta = ca.cached_cwnd_delta
                       /\ ca'.cached_cwnd_delta = ca.cached_cwnd_delta
                       /\ ca'.hidden_state = ca.hidden_state
                  ELSE /\ last'.cwnd_delta =
                            (IF ca'.shannon_entropy > 716
                             THEN fast_sigmoid(Shr(last'.output, 1))
                             ELSE fast_sigmoid(last'.output))
                       /\ ca'.cached_cwnd_delta = last'.cwnd_delta
          ELSE ca'.cached_cwnd_delta = ca.cached_cwnd_delta]_vars

(* An elided ack in congestion avoidance after a network invocation whose  *)
(* output was not 512: the signal of the ack is that cached output.        *)
C31_CachedSignalReused ==
    /\ tier = "optimized"
    /\ last.op = "cong_avoid"
    /\ last.arg = "skipped"
    /\ last.branch \in {"conservative", "aggressive"}
    /\ ca.cached_cwnd_delta # 512
    /\ last.cwnd_delta = ca.cached_cwnd_delta

(* The first ack of the connection is elided: the signal is the 512 of     *)
(* ndm_tcp_init.                                                            *)
C31_InitialCacheUsed ==
    /\ tier = "optimized"
    /\ last.op = "cong_avoid"
    /\ last.arg = "skipped"
    /\ nacks = 1
    /\ last.cwnd_delta = 512


----------------------------------------------------------------------------
(* Specification SpecGate: the last step of ndm_forward_pass as a function *)
(* of the output pre-activation.  The pre-activation is drawn from         *)
(* -MaxPre..MaxPre, which covers the linear range of sigmoid_approx and    *)
(* both saturated ranges, also after halving; the entropy score is 0 or    *)
(* 1000.  The one action gates and squashes the pre-activation.            *)

MaxPre == 13000
ScoreSet == {0, 1000}

InitGate ==
    /\ tier = "canonical"
    /\ \E e \in ScoreSet :
          ca = [ndm_tcp_init_ca(10, TCP_INFINITE_SSTHRESH) EXCEPT
                   !.shannon_entropy = e, !.has_data = TRUE,
                   !.congestion_detected = (e < ENTROPY_THRESHOLD)]
    /\ tp = ndm_tcp_init_tp(10)
    /\ \E x \in (-MaxPre)..MaxPre : last = [NoCall EXCEPT !.output = x]
    /\ nacks = 0
    /\ steps = 0

GateOutput ==
    /\ tier = "canonical"
    /\ steps = 0
    /\ last' = [last EXCEPT !.op = "gate",
                            !.cwnd_delta = GatedSignal(ca.shannon_entropy,
                                                       last.output)]
    /\ steps' = 1
    /\ UNCHANGED <<tier, ca, tp, nacks>>

NextGate == GateOutput

SpecGate == InitGate /\ [][NextGate]_vars

(* C32: canonical tier.  The growth signal is sigmoid_approx(output / 2)   *)
(* when the entropy score is above 700 and sigmoid_approx(output)          *)
(* otherwise, and for every pre-activation the halved one is squashed to a *)
(* value no farther from 500 than the full one.                            *)
C32_GateShrinksSignal ==
    last.op = "gate" =>
       LET x == last.output
           full == sigmoid_approx(x)
           half == sigmoid_approx(TDiv(x, 2))
       IN /\ last.cwnd_delta = (IF ca.shannon_entropy > 700 THEN half ELSE full)
          /\ Abs(half - 500) <= Abs(full - 500)
          /\ (ca.shannon_entropy > 700) =>
                Abs(last.cwnd_delta - 500) <= Abs(full - 500)

(* A pre-activation of -2001 under a score of 1000: halved to -1000 and    *)
(* squashed to 375, where the full value would give 250.                   *)
C32_GatedCloserToMidpoint ==
    /\ last.op = "gate"
    /\ ca.shannon_entropy = 1000
    /\ last.output = -2001
    /\ last.cwnd_delta = 375
    /\ sigmoid_approx(last.output) = 250


(* C33: canonical tier.  Every input of the scoring network lies in        *)
(* -1000..1000: the RTT-ratio input, the entropy input, the plasticity     *)
(* offset and the flag inputs.                                             *)
C33_InputsNormalized ==
    (last.op = "cong_avoid" /\ last.acked > 0) =>
       \A j \in 0..(INPUT_SIZE - 1) :
          /\ last.info[j] >= -1000
          /\ last.info[j] <= 1000


----------------------------------------------------------------------------
(* The bit-transition tier (ndm_tcp_lkm_hyp.c).  Its private state is a    *)
(* record of min_rtt, last_ack, plasticity, the 8-bit trend register       *)
(* entropy_hist, entropy_val and the 16-bit rtt_var that keeps the         *)
(* previous RTT sample.  ndm_tcp_init leaves the host's tcp_sock alone.    *)

MAX_P_hyp == 600
BASE_hyp == 100

(* Bit i of x. *)
BitOf(x, i) == (x \div (2 ^ i)) % 2

(* a ^ b on 8-bit operands. *)
BitXor8(a, b) ==
    SumTo([i \in 0..7 |-> IF BitOf(a, i) # BitOf(b, i) THEN 2 ^ i ELSE 0], 8)

(* hweight8: the number of set bits. *)
hweight8(x) == Cardinality({i \in 0..7 : BitOf(x, i) = 1})

(* update_entropy: shift the trend bit in, keep the sample in 16 bits,     *)
(* count the set bits of hist ^ (hist >> 1).                               *)
update_entropy(c, current_rtt) ==
    LET trend == IF current_rtt > c.rtt_var THEN 1 ELSE 0
        hist == U8(c.entropy_hist * 2 + trend)
    IN [c EXCEPT !.entropy_hist = hist,
                 !.rtt_var = U16(current_rtt),
                 !.entropy_val = hweight8(BitXor8(hist, Shr(hist, 1)))]

(* hyper_manifold: window growth less the entropy penalty, less the RTT    *)
(* penalty when the RTT is above min_rtt.                                  *)
hyper_manifold(t, c, srtt_us) ==
    LET rtt == Shr(srtt_us, 3)
        grad == (t.snd_cwnd * c.plasticity) \div BASE_hyp - c.entropy_val * 4
    IN IF rtt > c.min_rtt
       THEN grad - ((rtt - c.min_rtt) * c.plasticity) \div BASE_hyp
       ELSE grad

(* memset, then min_rtt = 0xFFFFFFFF and plasticity = 100. *)
ndm_tcp_init_ca_hyp ==
    [min_rtt |-> U32_MAX, last_ack |-> 0, plasticity |-> 100,
     entropy_hist |-> 0, entropy_val |-> 0, rtt_var |-> 0, pad |-> 0]

(* ndm_tcp_cong_avoid of the bit-transition tier on a cwnd-limited socket. *)
CongAvoidStep_hyp(c, t, acked, srtt_us) ==
    LET rtt == Shr(srtt_us, 3)
        c1 == update_entropy(c, rtt)
        c2 == IF rtt < c1.min_rtt \/ c1.min_rtt = 0
              THEN [c1 EXCEPT !.min_rtt = rtt] ELSE c1
        g == hyper_manifold(t, c2, srtt_us)
        branch == IF t.snd_cwnd <= t.snd_ssthresh THEN "slow_start"
                  ELSE IF g > 0 THEN "manifold" ELSE "additive"
        t1 == CASE branch = "slow_start" -> tcp_slow_start(t, acked)
                [] branch = "manifold" -> [t EXCEPT !.snd_cwnd = t.snd_cwnd + 1]
                [] OTHER -> tcp_cong_avoid_ai(t, t.snd_cwnd, 1)
    IN [ca |-> c2, tp |-> t1,
        call |-> [NoCall EXCEPT !.op = "cong_avoid", !.acked = acked,
                                !.srtt_us = srtt_us, !.rtt_us = rtt,
                                !.cwnd0 = t.snd_cwnd,
                                !.plast0 = c.plasticity, !.limited = TRUE,
                                !.branch = branch,
                                !.output = IF branch = "slow_start" THEN 0 ELSE g,
                                !.info = <<c.rtt_var, c.entropy_hist>>]]

(* ndm_tcp_ssthresh: plasticity above 100 loses a quarter. *)
SsthreshStep_hyp(c) ==
    IF c.plasticity > 100
    THEN [c EXCEPT !.plasticity = Shr(c.plasticity * 3, 2)]
    ELSE c

(* ndm_tcp_set_state: entering loss adds 50 up to MAX_P. *)
SetStateStep_hyp(c, new_state) ==
    IF new_state = "TCP_CA_Loss"
    THEN [c EXCEPT !.plasticity = U16(Min(c.plasticity + 50, MAX_P_hyp))]
    ELSE c

InitHyp ==
    /\ tier = "hyp"
    /\ ca = ndm_tcp_init_ca_hyp
    /\ tp = [snd_cwnd |-> 10, snd_ssthresh |-> TCP_INFINITE_SSTHRESH,
             snd_cwnd_cnt |-> 0, snd_cwnd_clamp |-> U32_MAX]
    /\ last = NoCall
    /\ nacks = 0
    /\ steps = 0

ndm_tcp_cong_avoid_hyp(acked, srtt_us, limited) ==
    /\ tier = "hyp"
    /\ IF ~limited
       THEN /\ last' = [NoCall EXCEPT !.op = "cong_avoid", !.acked = acked,
                                      !.srtt_us = srtt_us,
                                      !.cwnd0 = tp.snd_cwnd,
                                      !.plast0 = ca.plasticity]
            /\ UNCHANGED <<tier, ca, tp, nacks>>
       ELSE /\ \E r \in {CongAvoidStep_hyp(ca, tp, acked, srtt_us)} :
                  /\ ca' = r.ca
                  /\ tp' = r.tp
                  /\ last' = r.call
            /\ nacks' = nacks + 1
            /\ UNCHANGED tier

(* The host stores the returned threshold in snd_ssthresh. *)
ndm_tcp_ssthresh_hyp ==
    /\ tier = "hyp"
    /\ ca' = SsthreshStep_hyp(ca)
    /\ tp' = [tp EXCEPT !.snd_ssthresh = Max(2, Shr(tp.snd_cwnd, 1))]
    /\ last' = [NoCall EXCEPT !.op = "ssthresh", !.cwnd0 = tp.snd_cwnd,
                              !.plast0 = ca.plasticity,
                              !.ret = tp'.snd_ssthresh]
    /\ UNCHANGED <<tier, nacks>>

ndm_tcp_set_state_hyp(new_state) ==
    /\ tier = "hyp"
    /\ ca' = SetStateStep_hyp(ca, new_state)
    /\ last' = [NoCall EXCEPT !.op = "set_state", !.cwnd0 = tp.snd_cwnd,
                              !.plast0 = ca.plasticity, !.arg = new_state]
    /\ UNCHANGED <<tier, tp, nacks>>

(* ndm_tcp_undo returns the current window. *)
ndm_tcp_undo_hyp ==
    /\ tier = "hyp"
    /\ last' = [NoCall EXCEPT !.op = "undo_cwnd", !.cwnd0 = tp.snd_cwnd,
                              !.ret = tp.snd_cwnd]
    /\ UNCHANGED <<tier, ca, tp, nacks>>

(* Specification SpecHyp: up to MaxHypAcks cwnd-limited acks whose RTT is  *)
(* a rising ramp, the base RTT of 10 ms or 70 ms (above 65535 us), with    *)
(* acks on a socket that is not cwnd-limited in between; up to MaxHypCalls *)
(* reduce requests, state changes and undo requests before the third ack.  *)

MaxHypAcks == 8
MaxHypCalls == 2
EarlyHypAcks == 2

HypSrttSet == {8 * 10000, 8 * (10000 + 100 * nacks), 8 * 70000}

NextHyp ==
    \/ \E s \in HypSrttSet, l \in BOOLEAN :
          /\ nacks < MaxHypAcks
          /\ ndm_tcp_cong_avoid_hyp(1, s, l)
          /\ UNCHANGED steps
    \/ /\ steps < MaxHypCalls /\ nacks <= EarlyHypAcks /\ steps' = steps + 1
       /\ ndm_tcp_ssthresh_hyp
    \/ \E st \in StateSet :
          /\ steps < MaxHypCalls /\ nacks <= EarlyHypAcks /\ steps' = steps + 1
          /\ ndm_tcp_set_state_hyp(st)
    \/ /\ steps < MaxHypCalls /\ nacks <= EarlyHypAcks /\ steps' = steps + 1
       /\ ndm_tcp_undo_hyp

SpecHyp == InitHyp /\ [][NextHyp]_vars

(* The direction changes in the register: the adjacent unequal bits among  *)
(* its eight samples.                                                      *)
DirectionChanges(hist) ==
    Cardinality({i \in 0..6 : BitOf(hist, i) # BitOf(hist, i + 1)})

(* C34: bit-transition tier.  For every value of the trend register       *)
(* entropy_val is the number of direction changes among its eight          *)
(* samples; a register of all ones gives 0.                                *)
C34_EntropyCountsDirectionChanges ==
    (tier = "hyp" /\ nacks > 0) =>
       /\ ca.entropy_val = DirectionChanges(ca.entropy_hist)
       /\ (ca.entropy_hist = 255 => ca.entropy_val = 0)

(* C35: bit-transition tier.  On every processed ack that follows a        *)
(* processed ack the bit shifted into the register is 1 exactly when the   *)
(* RTT sample is strictly greater than the previous one.                   *)
C35_TrendBitComparesSamples ==
    [][(/\ last'.op = "cong_avoid" /\ last'.limited
        /\ last.op = "cong_avoid" /\ last.limited)
       => ((BitOf(ca'.entropy_hist, 0) = 1) <=> (last'.rtt_us > last.rtt_us))]_vars


C37_ThresholdTestsAgree ==
    [][/\ (last'.op = "cong_avoid" /\ last'.batch) =>
             /\ ca'.shannon_entropy # 700
             /\ ca'.congestion_detected <=> (ReductionFactor(ca') = 2)
       /\ (last.op = "cong_avoid" /\ last.batch /\ last'.op = "ssthresh") =>
             last'.ret = Max(tp.snd_cwnd \div (IF ca.congestion_detected
                                               THEN 2 ELSE 3), 2)]_vars

(* A reduce request right after a recomputation that scored mixed RTTs     *)
(* 1000: congestion_detected was false and the window is divided by 3.     *)
C37_ReduceAfterNoisyBatch ==
    /\ last.op = "ssthresh"
    /\ ca.has_data
    /\ ca.shannon_entropy = 1000
    /\ ~ca.congestion_detected
    /\ ca.packets_acked = 0
    /\ last.cwnd0 > 6
    /\ last.ret = last.cwnd0 \div 3


----------------------------------------------------------------------------
(* Specification SpecLive: acks without end.  The socket's window is       *)
(* clamped at LiveClamp, the RTT is constant, and acks of zero packets may *)
(* arrive at any time.  Up to MaxLiveBoosts reduce requests, recovery      *)
(* entries and idle restarts occur, each at the start, at the floor or     *)
(* right after another one.  The acks of one packet are not counted in     *)
(* nacks here.  The fairness condition says that they keep arriving: time  *)
(* and again a step is the handling of an ack of at least one packet.      *)

MaxLiveBoosts == 1
LiveClamp == 12
LiveSrttSet == {80000}

InitLive ==
    /\ tier = "canonical"
    /\ ca = ndm_tcp_init_ca(10, TCP_INFINITE_SSTHRESH)
    /\ tp = [ndm_tcp_init_tp(10) EXCEPT !.snd_cwnd_clamp = LiveClamp]
    /\ last = NoCall
    /\ nacks = 0
    /\ steps = 0

(* ndm_tcp_cong_avoid with acked = 1. *)
LiveAck ==
    /\ tier = "canonical"
    /\ \E s \in LiveSrttSet :
          \E r \in {CongAvoidStep(ca, tp, 1, s, TRUE)} :
             /\ ca' = r.ca
             /\ tp' = r.tp
             /\ last' = r.call
    /\ UNCHANGED <<tier, nacks, steps>>

LiveBoost ==
    /\ steps < MaxLiveBoosts
    /\ ca.plasticity = MIN_PLASTICITY \/ last.op # "cong_avoid"
    /\ steps' = steps + 1

NextLive ==
    \/ LiveAck
    \/ \E s \in LiveSrttSet : ndm_tcp_cong_avoid(0, s, TRUE) /\ UNCHANGED steps
    \/ LiveBoost /\ ndm_tcp_ssthresh
    \/ LiveBoost /\ ndm_tcp_set_state("TCP_CA_Recovery")
    \/ LiveBoost /\ ndm_tcp_cwnd_event("CA_EVENT_CWND_RESTART")

(* A step that is the handling of an ack of at least one packet.  In       *)
(* NextLive these are the LiveAck steps; LiveAck is enabled in every state *)
(* and always moves history_index, so their recurrence is what weak        *)
(* fairness on LiveAck amounts to.                                         *)
AckHandled == last'.op = "cong_avoid" /\ last'.acked > 0

SpecLive == InitLive /\ [][NextLive]_vars /\ []<><<AckHandled>>_vars

(* C38: canonical tier.  When acks of at least one packet keep arriving    *)
(* and reduce requests, recovery entries and idle restarts have ceased,    *)
(* plasticity reaches the floor 100 and stays there.                       *)
C38_PlasticitySettlesAtFloor == <>[](ca.plasticity = 100)

(* After the last boost the decay has brought plasticity back to 100. *)
C38_FloorAfterBoosts ==
    /\ steps = MaxLiveBoosts
    /\ last.op = "cong_avoid"
    /\ last.acked = 1
    /\ last.plast0 = 100
    /\ ca.plasticity = 100


----------------------------------------------------------------------------
(* Specification SpecAct: the lookup-table activations of the optimized    *)
(* tier as functions of their input.  The input starts at -MaxAct, below   *)
(* the lower saturation edge, and rises by 1 or by one table step of 64 up *)
(* to MaxAct, above the upper edge; every step evaluates fast_tanh and     *)
(* fast_sigmoid at the new input.                                          *)

MaxAct == 3200
ActStepSet == {1, 64}

InitAct ==
    /\ tier = "optimized"
    /\ ca = ndm_tcp_init_ca_opt(10, TCP_INFINITE_SSTHRESH)
    /\ tp = ndm_tcp_init_tp(10)
    /\ last = [NoCall EXCEPT !.op = "activation", !.output = -MaxAct,
                             !.ret = fast_tanh(-MaxAct),
                             !.cwnd_delta = fast_sigmoid(-MaxAct)]
    /\ nacks = 0
    /\ steps = 0

Activate(d) ==
    /\ tier = "optimized"
    /\ last.output + d <= MaxAct
    /\ last' = [last EXCEPT !.output = last.output + d,
                            !.ret = fast_tanh(last.output + d),
                            !.cwnd_delta = fast_sigmoid(last.output + d)]
    /\ UNCHANGED <<tier, ca, tp, nacks, steps>>

NextAct == \E d \in ActStepSet : Activate(d)

SpecAct == InitAct /\ [][NextAct]_vars

(* C39: optimized tier.  fast_tanh and fast_sigmoid are non-decreasing in  *)
(* their input over the whole input range, inputs from 1024 to 3071        *)
(* included.                                                               *)
C39_ActivationsMonotone ==
    [][last'.output >= last.output =>
          /\ last'.ret >= last.ret
          /\ last'.cwnd_delta >= last.cwnd_delta]_vars

====
